---- MODULE Spec2Model ----
(***************************************************************************)
(* Zarf package engine: the composer's import chain (NewImportChain,       *)
(* MergeVariables / MergeConstants) and the deployer with the registry     *)
(* bootstrap (Deploy, deployComponent, preSeedRegistry, postSeedRegistry). *)
(*                                                                         *)
(* Paths are sequences of path segments.  The empty sequence is the empty  *)
(* string, <<".">> is the cleaned path ".".                                *)
(***************************************************************************)
EXTENDS Integers, Sequences, FiniteSets, TLC

VARIABLES
    \* ---- composer (NewImportChain) ----
    cpc,        \* position in NewImportChain: "start", "loop", "done", "merged", "idle"
    arch,       \* argument arch
    flavor,     \* argument flavor
    head,       \* argument head (a component) and its index
    chain,      \* ImportChain as an arena: chain[1] is Head, chain[Len(chain)] is Tail
    node,       \* the loop variable `node` as a position in chain
    history,    \* the local `history`: import paths followed so far
    err,        \* the error returned by NewImportChain
    merged,     \* result of MergeVariables / MergeConstants
    \* ---- one operation run on its own ----
    fpc,        \* position in the operation: "in" before it, "out" after it, "idle"
    fin,        \* the arguments of the operation
    fout,       \* what the operation has produced
    \* ---- deployer ----
    dpc,        \* position in Deploy
    cfg,        \* package and options Deploy runs with
    comp,       \* index of the component being deployed
    steps,      \* steps performed for the current component, in order
    retry,      \* loop counter of the current push loop
    pushed,     \* outcome of the push loops of the current component
    ready,      \* valueTemplate.Ready(): the Zarf state is loaded in this process
    cluster,    \* cluster resources touched by the bootstrap
    state,      \* local `state` of preSeedRegistry
    events      \* bootstrap events in order

cvars == <<cpc, arch, flavor, head, chain, node, history, err, merged>>
fvars == <<fpc, fin, fout>>
dvars == <<dpc, cfg, comp, steps, retry, pushed, ready, cluster, state, events>>
vars == <<cpc, arch, flavor, head, chain, node, history, err, merged,
          fpc, fin, fout,
          dpc, cfg, comp, steps, retry, pushed, ready, cluster, state, events>>

---------------------------------------------------------------------------
(* Bounds *)

\* deepest directory (in cleaned path segments) that holds a zarf.yaml
MaxDepth == 1
\* most components in one zarf.yaml
MaxComponents == 2
\* most containers in spec.containers of a pod
MaxContainers == 2

\* paths of a package published (layers of its manifest)
MaxLayers == 2

\* actions in one list of an action set
MaxActions == 1

---------------------------------------------------------------------------
(* Paths: filepath.Join / filepath.Clean on relative paths *)

RECURSIVE Flatten(_)
Flatten(h) == IF h = <<>> THEN <<>> ELSE Head(h) \o Flatten(Tail(h))

RECURSIVE CleanStack(_, _)
CleanStack(segs, stack) ==
    IF segs = <<>> THEN stack
    ELSE LET s == Head(segs) IN
         IF s = "." THEN CleanStack(Tail(segs), stack)
         ELSE IF s = ".."
              THEN IF stack # <<>> /\ stack[Len(stack)] # ".."
                   THEN CleanStack(Tail(segs), SubSeq(stack, 1, Len(stack) - 1))
                   ELSE CleanStack(Tail(segs), Append(stack, s))
              ELSE CleanStack(Tail(segs), Append(stack, s))

Clean(segs) == LET c == CleanStack(segs, <<>>) IN IF c = <<>> THEN <<".">> ELSE c

\* filepath.Join(history...): empty elements are ignored, the result is
\* cleaned, and joining nothing gives the empty string
Join(h) == IF Flatten(h) = <<>> THEN <<>> ELSE Clean(Flatten(h))

---------------------------------------------------------------------------
(* Inputs of the composer *)

Comp(n, a, f, p, u, i) ==
    [name |-> n, arch |-> a, flavor |-> f,
     import |-> [path |-> p, url |-> u, name |-> i]]

\* components that manifests are made of
CompPool ==
    { Comp("a", "", "", <<>>, "", ""),
      Comp("a", "", "", <<".", "A">>, "", ""),
      Comp("a", "", "", <<"..">>, "", ""),
      Comp("a", "", "", <<".">>, "", ""),
      Comp("a", "", "", <<>>, "oci://r", ""),
      Comp("b", "", "", <<>>, "", ""),
      Comp("b", "", "", <<"A">>, "", "a"),
      Comp("a", "arm64", "", <<>>, "", ""),
      Comp("a", "", "g", <<>>, "", "") }

Var(n, d) == [name |-> n, default |-> d]

ComponentLists == UNION { [1..n -> CompPool] : n \in 0..MaxComponents }

\* variables and constants sections of a manifest (names unique in each)
VarSections ==
    { [v |-> <<>>, c |-> <<>>],
      [v |-> << Var("X", 1) >>, c |-> << Var("K", 1), Var("L", 1) >>],
      [v |-> << Var("Y", 2), Var("X", 2) >>, c |-> << Var("K", 2) >>] }

\* variables and constants of the package that owns the head component
ExistingSections ==
    { [v |-> <<>>, c |-> <<>>],
      [v |-> << Var("Z", 0), Var("Y", 0) >>, c |-> << Var("L", 0) >>] }

Manifests ==
    { [components |-> cs, variables |-> vs.v, constants |-> vs.c] :
        cs \in ComponentLists, vs \in VarSections }

\* directories (cleaned, relative to the head) that hold a zarf.yaml
DirExists(rel) == Len(rel) <= MaxDepth

NoErr == [kind |-> "none", list |-> <<>>]
Err(k) == [kind |-> k, list |-> <<>>]

---------------------------------------------------------------------------
(* Composer *)

\* Node.ImportName
ImportName(c) == IF c.import.name # "" THEN c.import.name ELSE c.name

\* validate.ImportDefinition: path and url are mutually exclusive
ImportDefinition(c) ==
    IF c.import.path # <<>> /\ c.import.url # "" THEN Err("invalid") ELSE NoErr

\* the index loop of NewImportChain: the last position whose component
\* is reflect.DeepEqual to found[0] (0-based, 0 when there is none)
IndexOf(found0, components) ==
    LET hits == { i \in 1..Len(components) : components[i] = found0 }
    IN IF hits = {} THEN 0
       ELSE (CHOOSE i \in hits : \A j \in hits : j <= i) - 1

CompatibleIgnoringFlavor(c, a, f) == c.arch = "" \/ c.arch = a

\* CompatibleComponent
CompatibleComponent(c, a, f) ==
    LET satisfiesArch == c.arch = "" \/ c.arch = a
        satisfiesFlavor == c.flavor = "" \/ c.flavor = f
    IN satisfiesArch /\ satisfiesFlavor

\* the lookup of NewImportChain: helpers.Filter by name and compatibility,
\* fail on none or several, else the component and its index
FindComponent(components, name, a, f) ==
    LET Matches(c) == c.name = name /\ CompatibleComponent(c, a, f)
        found == SelectSeq(components, Matches)
    IN IF Len(found) = 0 THEN [kind |-> "notfound"]
       ELSE IF Len(found) > 1 THEN [kind |-> "multiple"]
       ELSE [kind |-> "ok", comp |-> found[1], index |-> IndexOf(found[1], components)]

ScanCircularSkippingHead(ch, n, rel) == \E i \in 2..n : ch[i].relativeToHead = rel

\* the circular-import scan: prev walks from node back to the head
ScanCircular(ch, n, rel) == \E i \in 1..n : ch[i].relativeToHead = rel

CircularListDroppingLast(h) == SubSeq(h, 1, Len(h) - 1)

\* the list in the circular-import error: strings.Join(history, " -> ")
CircularList(h) == h

RemoteCheckRemoteOnly(prevRemote, isLocal, isRemote) ==
    IF prevRemote /\ isRemote THEN Err("remoteFromRemote") ELSE NoErr

\* the two checks on a node whose predecessor imports by URL
RemoteCheck(prevRemote, isLocal, isRemote) ==
    IF prevRemote /\ isRemote THEN Err("remoteFromRemote")
    ELSE IF prevRemote /\ isLocal THEN Err("localFromRemote")
    ELSE NoErr

\* ImportChain.append
ChainAppend(ch, c, index, rel, vs, cs) ==
    Append(ch, [comp |-> c, index |-> index, relativeToHead |-> rel,
                vars |-> vs, consts |-> cs])

\* the `exists` function MergeVariables and MergeConstants hand to MergeSlices
SameName(v1, v2) == v1.name = v2.name

\* helpers.MergeSlices with `exists`: s1, then the entries of s2 that
\* equal no entry of s1
MergeSlices(s1, s2) ==
    LET Fresh(v2) == ~ \E i \in 1..Len(s1) : SameName(s1[i], v2)
    IN s1 \o SelectSeq(s2, Fresh)

RECURSIVE MergeUp(_, _, _, _)
MergeUp(ch, i, acc, field) ==
    IF i = 0 THEN acc
    ELSE MergeUp(ch, i - 1, MergeSlices(ch[i][field], acc), field)

RECURSIVE MergeDown(_, _, _, _)
MergeDown(ch, i, acc, field) ==
    IF i > Len(ch) THEN acc
    ELSE MergeDown(ch, i + 1, MergeSlices(ch[i][field], acc), field)

MergeVariablesHeadFirst(ch, existing) ==
    MergeSlices(existing, MergeDown(ch, 1, <<>>, "vars"))

\* ImportChain.MergeVariables
MergeVariables(ch, existing) ==
    MergeSlices(existing, MergeUp(ch, Len(ch), <<>>, "vars"))

\* ImportChain.MergeConstants
MergeConstants(ch, existing) ==
    MergeSlices(existing, MergeUp(ch, Len(ch), <<>>, "consts"))

\* NewImportChain up to the loop: the arch check and the head node
NewImportChainStart ==
    /\ cpc = "start"
    /\ IF arch = ""
       THEN /\ cpc' = "done"
            /\ err' = Err("noarch")
            /\ UNCHANGED <<chain, node>>
       ELSE /\ chain' = ChainAppend(<<>>, head.comp, head.index, <<".">>, <<>>, <<>>)
            /\ node' = 1
            /\ cpc' = "loop"
            /\ UNCHANGED err
    /\ UNCHANGED <<arch, flavor, head, history, merged>>
    /\ UNCHANGED <<fvars, dvars>>

Return(e) ==
    /\ cpc' = "done"
    /\ err' = e
    /\ UNCHANGED <<chain, node>>

\* the part of one iteration after pkg was read
Resolve(n, pkg, hist) ==
    LET r == FindComponent(pkg.components, ImportName(n.comp), arch, flavor)
    IN IF r.kind # "ok" THEN Return(Err(r.kind))
       ELSE /\ chain' = ChainAppend(chain, r.comp, r.index, Join(hist),
                                    pkg.variables, pkg.constants)
            /\ node' = node + 1
            /\ UNCHANGED <<cpc, err>>

\* one iteration of the loop of NewImportChain
ImportStep ==
    /\ cpc = "loop"
    /\ LET n == chain[node]
           isLocal == n.comp.import.path # <<>>
           isRemote == n.comp.import.url # ""
           prevRemote == node > 1 /\ chain[node - 1].comp.import.url # ""
       IN IF ~isLocal /\ ~isRemote
          THEN Return(NoErr) /\ UNCHANGED history
          ELSE IF ImportDefinition(n.comp) # NoErr
          THEN Return(ImportDefinition(n.comp)) /\ UNCHANGED history
          ELSE IF RemoteCheck(prevRemote, isLocal, isRemote) # NoErr
          THEN Return(RemoteCheck(prevRemote, isLocal, isRemote)) /\ UNCHANGED history
          ELSE IF isLocal
          THEN /\ history' = Append(history, n.comp.import.path)
               /\ LET relativeToHead == Join(history') IN
                  IF ScanCircular(chain, node, relativeToHead)
                  THEN Return([kind |-> "circular", list |-> CircularList(history')])
                  ELSE IF ~DirExists(relativeToHead)
                  THEN Return(Err("read"))
                  ELSE \E pkg \in Manifests : Resolve(n, pkg, history')
          ELSE /\ UNCHANGED history
               /\ \/ Return(Err("fetch"))
                  \/ \E pkg \in Manifests : Resolve(n, pkg, history)
    /\ UNCHANGED <<arch, flavor, head, merged>>
    /\ UNCHANGED <<fvars, dvars>>

\* the caller merges the package's own variables and constants with the chain's
Merge ==
    /\ cpc = "done"
    /\ err = NoErr
    /\ \E ex \in ExistingSections :
         merged' = [existing |-> ex,
                    variables |-> MergeVariables(chain, ex.v),
                    constants |-> MergeConstants(chain, ex.c)]
    /\ cpc' = "merged"
    /\ UNCHANGED <<arch, flavor, head, chain, node, history, err>>
    /\ UNCHANGED <<fvars, dvars>>

\* one lookup on its own
Find ==
    /\ fpc = "in"
    /\ fout' = FindComponent(fin.components, fin.name, fin.arch, fin.flavor)
    /\ fpc' = "out"
    /\ UNCHANGED fin
    /\ UNCHANGED <<cvars, dvars>>

---------------------------------------------------------------------------
(* Deployer and registry bootstrap *)

\* retries of an image or repo push: `for retry := 0; retry < 3; retry++`
PushAttempts == 3

AllParts == {"before", "files", "images", "repos", "data", "charts", "manifests", "after"}

Part(n, ps) == [name |-> n, parts |-> ps]

\* packages Deploy is run on: kind and components in manifest order
Packages ==
    { [init |-> TRUE,
       components |-> << Part("zarf-seed-registry", {"images", "charts"}),
                         Part("zarf-registry", {"images", "charts", "manifests"}),
                         Part("zarf-agent", {"images", "manifests"}) >>],
      [init |-> TRUE,
       components |-> << Part("zarf-seed-registry", {"charts"}),
                         Part("git-server", AllParts) >>],
      [init |-> TRUE,
       components |-> << Part("zarf-agent", {"images", "manifests"}) >>],
      [init |-> FALSE,
       components |-> << Part("app", AllParts) >>],
      [init |-> FALSE,
       components |-> << Part("app", {"images", "repos", "charts"}),
                         Part("db", {"files", "data", "manifests", "after"}) >>],
      [init |-> FALSE,
       components |-> << Part("zarf-seed-registry", {"charts"}) >>] }

\* the zero value of ZarfState: what LoadZarfState gives without a state secret
ZeroState ==
    [secret |-> "", distro |-> "", architecture |-> "", zarfAppliance |-> FALSE,
     nodePort |-> "", storageClass |-> ""]

\* states a cluster may hold from an earlier init
ExistingStates ==
    { [secret |-> "s0", distro |-> "kind", architecture |-> "amd64",
       zarfAppliance |-> FALSE, nodePort |-> "30500", storageClass |-> "custom"],
      [secret |-> "s1", distro |-> "unknown", architecture |-> "arm64",
       zarfAppliance |-> TRUE, nodePort |-> "31999", storageClass |-> "gp2"] }

Distros == {"k3s", "kind", "unknown"}

\* config.GetArch(): the architecture of the package
PkgArch == "amd64"

\* the switch on state.Distro in preSeedRegistry
StorageClassFor(distro, current) ==
    IF distro \in {"k3s", "k3d"} THEN "local-path"
    ELSE IF distro \in {"kind", "gke"} THEN "standard"
    ELSE IF distro = "docker-desktop" THEN "hostpath"
    ELSE current

\* the defaults of a new cluster given to every cluster
SeedStateAlwaysFresh(loaded, detected) ==
    LET fresh ==
          [loaded EXCEPT
             !.zarfAppliance = IF cfg.applianceMode THEN TRUE ELSE @,
             !.nodePort = "31999",
             !.secret = "generated",
             !.distro = IF cfg.applianceMode THEN "k3s" ELSE detected,
             !.architecture = PkgArch]
    IN [fresh EXCEPT !.storageClass = StorageClassFor(fresh.distro, @)]

\* preSeedRegistry from LoadZarfState to the storage class: the state to save
SeedState(loaded, detected) ==
    LET fresh ==
          IF loaded.secret = ""
          THEN [loaded EXCEPT
                  !.zarfAppliance = IF cfg.applianceMode THEN TRUE ELSE @,
                  !.nodePort = "31999",
                  !.secret = "generated",
                  !.distro = IF cfg.applianceMode THEN "k3s" ELSE detected,
                  !.architecture = PkgArch]
          ELSE loaded
    IN [fresh EXCEPT !.storageClass = StorageClassFor(fresh.distro, @)]

Cur == cfg.components[comp]
Has(p) == p \in Cur.parts
SeedVariant == Cur.name \in {"zarf-seed-registry", "zarf-agent"}

StepAfterChartsFirst(p) ==
    CASE p = "c_before" -> "c_files"
      [] p = "c_files" -> "c_validate"
      [] p = "c_validate" -> "c_charts"
      [] p = "c_charts" -> "c_manifests"
      [] p = "c_manifests" -> "c_images"
      [] p = "c_images" -> "c_repos"
      [] p = "c_repos" -> "c_data"
      [] p = "c_data" -> "c_after"

\* the statements of deployComponent and deploySeedRegistryComponent in
\* the order they are written
StepAfter(p) ==
    CASE p = "c_before" -> "c_files"
      [] p = "c_files" -> "c_validate"
      [] p = "c_validate" -> "c_images"
      [] p = "c_images" -> "c_repos"
      [] p = "c_repos" -> "c_data"
      [] p = "c_data" -> "c_charts"
      [] p = "c_charts" -> "c_manifests"
      [] p = "c_manifests" -> "c_after"

Fatal ==
    /\ dpc' = "fatal"
    /\ UNCHANGED <<cfg, comp, steps, retry, pushed, ready, cluster, state, events>>

\* where Deploy goes on when the component function returns
AfterComponent == IF Cur.name = "zarf-seed-registry" THEN "post_clean" ELSE "next"

\* Deploy: the loop over componentsToDeploy and its switch on the name
DeployNext ==
    /\ dpc = "next"
    /\ IF comp = Len(cfg.components)
       THEN /\ dpc' = "complete"
            /\ UNCHANGED <<comp, steps, retry, pushed>>
       ELSE /\ comp' = comp + 1
            /\ steps' = <<>>
            /\ retry' = 0
            /\ pushed' = [pushed EXCEPT !.images = "none", !.repos = "none"]
            /\ dpc' = LET name == cfg.components[comp + 1].name IN
                      IF name = "zarf-seed-registry" THEN "pre_load"
                      ELSE IF name = "zarf-agent" /\ cfg.externalRegistry THEN "seed_state"
                      ELSE "c_begin"
    /\ UNCHANGED <<cfg, ready, cluster, state, events>>
    /\ UNCHANGED <<cvars, fvars>>

PreSeedLoadSkippingInjector ==
    /\ dpc = "pre_load"
    /\ \/ Fatal
       \/ \E detected \in Distros :
            LET st == SeedState(cluster.state, detected) IN
            IF cfg.clusterArch # st.architecture
            THEN Fatal
            ELSE /\ state' = st
                 /\ dpc' = IF cluster.state.secret # "" THEN "pre_save" ELSE "pre_inject"
                 /\ UNCHANGED <<cfg, comp, steps, retry, pushed, ready, cluster, events>>
    /\ UNCHANGED <<cvars, fvars>>

\* preSeedRegistry, first part: cluster health, architecture, the loaded
\* state, the defaults of a new cluster and the storage class
PreSeedLoad ==
    /\ dpc = "pre_load"
    /\ \/ Fatal
       \/ \E detected \in Distros :
            LET st == SeedState(cluster.state, detected) IN
            IF cfg.clusterArch # st.architecture
            THEN Fatal
            ELSE /\ state' = st
                 /\ dpc' = "pre_inject"
                 /\ UNCHANGED <<cfg, comp, steps, retry, pushed, ready, cluster, events>>
    /\ UNCHANGED <<cvars, fvars>>

\* runK3sCLIInjection: `k3s ctr images import` of the seed image
RunK3sCLIInjection(c) == [c EXCEPT !.k3sImage = TRUE]

\* runCrazyConfigmapInjector: payload ConfigMaps, injector pod and Service
RunCrazyConfigmapInjector(c) ==
    [c EXCEPT !.configmaps = TRUE, !.pod = TRUE, !.service = TRUE]

\* preSeedRegistry, second part: the injector
PreSeedInject ==
    /\ dpc = "pre_inject"
    /\ \/ Fatal
       \/ /\ cluster' = IF cfg.applianceMode
                        THEN RunK3sCLIInjection(cluster)
                        ELSE RunCrazyConfigmapInjector(cluster)
          /\ events' = Append(events, "inject")
          /\ dpc' = "pre_save"
          /\ UNCHANGED <<cfg, comp, steps, retry, pushed, ready, state>>
    /\ UNCHANGED <<cvars, fvars>>

\* preSeedRegistry, last part: SaveZarfState, InitState, DockerLogin
PreSeedSave ==
    /\ dpc = "pre_save"
    /\ \/ Fatal
       \/ /\ cluster' = [cluster EXCEPT !.state = state]
          /\ events' = Append(events, "saveState")
          /\ ready' = TRUE
          /\ \/ dpc' = "c_begin"
             \/ dpc' = "fatal"
          /\ UNCHANGED <<cfg, comp, steps, retry, pushed, state>>
    /\ UNCHANGED <<cvars, fvars>>

\* seedZarfState as Deploy calls it for zarf-agent with an external registry
SeedZarfState ==
    /\ dpc = "seed_state"
    /\ \/ Fatal
       \/ \E detected \in Distros :
            LET st == SeedState(cluster.state, detected) IN
            IF cfg.clusterArch # st.architecture
            THEN Fatal
            ELSE /\ state' = st
                 /\ cluster' = [cluster EXCEPT !.state = st]
                 /\ events' = Append(events, "seedState")
                 /\ ready' = TRUE
                 /\ dpc' = "c_begin"
                 /\ UNCHANGED <<cfg, comp, steps, retry, pushed>>
    /\ UNCHANGED <<cvars, fvars>>

\* deployComponent / deploySeedRegistryComponent: the external-registry guard
ComponentBegin ==
    /\ dpc = "c_begin"
    /\ LET skip == IF SeedVariant
                   THEN cfg.externalRegistry
                   ELSE cfg.externalRegistry /\ Cur.name \in {"zarf-injector", "zarf-registry"}
       IN dpc' = IF skip THEN AfterComponent ELSE "c_before"
    /\ UNCHANGED <<cfg, comp, steps, retry, pushed, ready, cluster, state, events>>
    /\ UNCHANGED <<cvars, fvars>>

Did(step) == IF Has(step) THEN Append(steps, step) ELSE steps

\* runComponentScripts(component.Scripts.Before, ...)
RunBeforeScripts ==
    /\ dpc = "c_before"
    /\ steps' = Did("before")
    /\ dpc' = StepAfter("c_before")
    /\ UNCHANGED <<cfg, comp, retry, pushed, ready, cluster, state, events>>
    /\ UNCHANGED <<cvars, fvars>>

\* processComponentFiles
ProcessComponentFiles ==
    /\ dpc = "c_files"
    /\ \/ Has("files") /\ Fatal
       \/ /\ steps' = Did("files")
          /\ dpc' = StepAfter("c_files")
          /\ UNCHANGED <<cfg, comp, retry, pushed, ready, cluster, state, events>>
    /\ UNCHANGED <<cvars, fvars>>

\* template.Generate and someSortOfValidation
SomeSortOfValidation ==
    /\ dpc = "c_validate"
    /\ LET touches == Has("images") \/ Has("charts") \/ Has("manifests") \/ Has("repos")
           loaded == cluster.state
       IN IF ~ready /\ touches
          THEN IF loaded.distro = ""
               THEN Fatal
               ELSE IF Has("images") /\ loaded.architecture # PkgArch
               THEN Fatal
               ELSE /\ ready' = TRUE
                    /\ dpc' = StepAfter("c_validate")
                    /\ UNCHANGED <<cfg, comp, steps, retry, pushed, cluster, state, events>>
          ELSE /\ dpc' = StepAfter("c_validate")
               /\ UNCHANGED <<cfg, comp, steps, retry, pushed, ready, cluster, state, events>>
    /\ UNCHANGED <<cvars, fvars>>

\* the loop without its `break`: a successful attempt is followed by the
\* next one
PushLoopWithoutBreak(kind, nextpc) ==
    IF ~Has(kind)
    THEN /\ dpc' = nextpc
         /\ UNCHANGED <<steps, retry, pushed>>
    ELSE /\ steps' = IF retry = 0 THEN Append(steps, kind) ELSE steps
         /\ pushed' = [pushed EXCEPT ![kind] = "ok"]
         /\ IF retry + 1 < PushAttempts
            THEN retry' = retry + 1 /\ UNCHANGED dpc
            ELSE retry' = 0 /\ dpc' = nextpc

\* one pass of the loop of pushImagesToRegistry, pushSeedImagesToRegistry
\* or pushReposToRepository: an empty list returns at once, a failed
\* attempt is logged and retried, and the loop ends after PushAttempts
PushLoop(kind, nextpc) ==
    IF ~Has(kind)
    THEN /\ dpc' = nextpc
         /\ UNCHANGED <<steps, retry, pushed>>
    ELSE /\ steps' = IF retry = 0 THEN Append(steps, kind) ELSE steps
         /\ \/ /\ pushed' = [pushed EXCEPT ![kind] = "ok"]
               /\ retry' = 0
               /\ dpc' = nextpc
            \/ IF retry + 1 < PushAttempts
               THEN /\ retry' = retry + 1
                    /\ UNCHANGED <<pushed, dpc>>
               ELSE /\ pushed' = [pushed EXCEPT ![kind] = "failed", !.everFailed = TRUE]
                    /\ retry' = 0
                    /\ dpc' = nextpc

\* pushImagesToRegistry / pushSeedImagesToRegistry
PushImagesToRegistry ==
    /\ dpc = "c_images"
    /\ PushLoop("images", StepAfter("c_images"))
    /\ UNCHANGED <<cfg, comp, ready, cluster, state, events>>
    /\ UNCHANGED <<cvars, fvars>>

\* pushReposToRepository
PushReposToRepository ==
    /\ dpc = "c_repos"
    /\ PushLoop("repos", StepAfter("c_repos"))
    /\ UNCHANGED <<cfg, comp, ready, cluster, state, events>>
    /\ UNCHANGED <<cvars, fvars>>

\* performDataInjections: one task per injection, awaited before it returns
PerformDataInjections ==
    /\ dpc = "c_data"
    /\ steps' = Did("data")
    /\ dpc' = StepAfter("c_data")
    /\ UNCHANGED <<cfg, comp, retry, pushed, ready, cluster, state, events>>
    /\ UNCHANGED <<cvars, fvars>>

\* installChartAndManifests: the loop over component.Charts
InstallCharts ==
    /\ dpc = "c_charts"
    /\ \/ Has("charts") /\ Fatal
       \/ /\ steps' = Did("charts")
          /\ dpc' = StepAfter("c_charts")
          /\ UNCHANGED <<cfg, comp, retry, pushed, ready, cluster, state, events>>
    /\ UNCHANGED <<cvars, fvars>>

\* installChartAndManifests: the loop over component.Manifests
InstallManifests ==
    /\ dpc = "c_manifests"
    /\ \/ Has("manifests") /\ Fatal
       \/ /\ steps' = Did("manifests")
          /\ dpc' = StepAfter("c_manifests")
          /\ UNCHANGED <<cfg, comp, retry, pushed, ready, cluster, state, events>>
    /\ UNCHANGED <<cvars, fvars>>

\* runComponentScripts(component.Scripts.After, ...) and the return to Deploy
RunAfterScripts ==
    /\ dpc = "c_after"
    /\ steps' = Did("after")
    /\ dpc' = AfterComponent
    /\ UNCHANGED <<cfg, comp, retry, pushed, ready, cluster, state, events>>
    /\ UNCHANGED <<cvars, fvars>>

PostSeedCleanupInAppliance ==
    /\ dpc = "post_clean"
    /\ IF ~cfg.applianceMode
       THEN UNCHANGED <<cluster, events>>
       ELSE /\ \E p \in {FALSE, cluster.pod}, c \in {FALSE, cluster.configmaps},
                  v \in {FALSE, cluster.service} :
                 cluster' = [cluster EXCEPT !.pod = p, !.configmaps = c, !.service = v]
            /\ events' = events \o <<"deletePod", "deleteConfigMaps", "deleteService">>
    /\ dpc' = "post_push"
    /\ UNCHANGED <<cfg, comp, steps, retry, pushed, ready, state>>
    /\ UNCHANGED <<cvars, fvars>>

\* postSeedRegistry, first part: outside appliance mode delete the injector
\* pod, the payload ConfigMaps and the injector Service, ignoring errors
PostSeedCleanup ==
    /\ dpc = "post_clean"
    /\ IF cfg.applianceMode
       THEN UNCHANGED <<cluster, events>>
       ELSE /\ \E p \in {FALSE, cluster.pod}, c \in {FALSE, cluster.configmaps},
                  v \in {FALSE, cluster.service} :
                 cluster' = [cluster EXCEPT !.pod = p, !.configmaps = c, !.service = v]
            /\ events' = events \o <<"deletePod", "deleteConfigMaps", "deleteService">>
    /\ dpc' = "post_push"
    /\ UNCHANGED <<cfg, comp, steps, retry, pushed, ready, state>>
    /\ UNCHANGED <<cvars, fvars>>

\* postSeedRegistry, last part: push the seed image into the Zarf registry;
\* the result of the push is not looked at
PostSeedPush ==
    /\ dpc = "post_push"
    /\ events' = Append(events, "pushSeed")
    /\ \/ cluster' = [cluster EXCEPT !.registrySeed = TRUE]
       \/ UNCHANGED cluster
    /\ dpc' = "next"
    /\ UNCHANGED <<cfg, comp, steps, retry, pushed, ready, state>>
    /\ UNCHANGED <<cvars, fvars>>

---------------------------------------------------------------------------
(* Strings are sequences of character codes (ASCII) *)

HasPrefix(s, p) == Len(p) <= Len(s) /\ SubSeq(s, 1, Len(p)) = p

TrimPrefix(s, p) == IF HasPrefix(s, p) THEN SubSeq(s, Len(p) + 1, Len(s)) ELSE s

\* position of the first / last occurrence of the character c in s, 0 if none
IndexRune(s, c) ==
    CHOOSE n \in { IF \E i \in 1..Len(t) : t[i] = c
                   THEN CHOOSE i \in 1..Len(t) :
                            t[i] = c /\ \A j \in 1..(i - 1) : t[j] # c
                   ELSE 0 : t \in {s} } : TRUE

LastIndexRune(s, c) ==
    CHOOSE n \in { IF \E i \in 1..Len(t) : t[i] = c
                   THEN CHOOSE i \in 1..Len(t) :
                            t[i] = c /\ \A j \in (i + 1)..Len(t) : t[j] # c
                   ELSE 0 : t \in {s} } : TRUE

ContainsRune(s, c) == IndexRune(s, c) # 0

IsDigit(c) == c \in 48..57
IsLower(c) == c \in 97..122
IsUpper(c) == c \in 65..90
IsHex(c) == c \in 48..57 \/ c \in 97..102

\* bitwise exclusive or of two naturals
RECURSIVE Xor(_, _)
Xor(a, b) ==
    IF a = 0 THEN b
    ELSE IF b = 0 THEN a
    ELSE 2 * Xor(a \div 2, b \div 2) + ((a + b) % 2)

\* a uint32 is kept as its two 16 bit halves
Uint32(h, l) == [hi |-> h, lo |-> l]

\* fmt's %d of a uint32: division by ten, digit by digit (the quotient is
\* computed before its digits are)
RECURSIVE FormatDecimal(_)
FormatDecimal(n) ==
    LET carry == (n.hi % 10) * 65536 + n.lo
    IN IF n.hi = 0 /\ n.lo < 10 THEN << 48 + n.lo >>
       ELSE CHOOSE digits \in { Append(FormatDecimal(quotient), 48 + (carry % 10)) :
                                  quotient \in { Uint32(n.hi \div 10, carry \div 10) } } :
                TRUE

\* one step of the reflected CRC-32 with the IEEE polynomial 0xEDB88320:
\* shift right by one bit and fold the polynomial in when a one fell out
CrcBit(crc) ==
    LET shifted == Uint32(crc.hi \div 2, (crc.lo \div 2) + (crc.hi % 2) * 32768)
    IN IF crc.lo % 2 = 1
       THEN Uint32(Xor(shifted.hi, 60856), Xor(shifted.lo, 33568))
       ELSE shifted

\* k steps, the register computed before the next step
RECURSIVE CrcShift(_, _)
CrcShift(crc, k) ==
    IF k = 0 THEN crc
    ELSE CHOOSE r \in { CrcShift(c, k - 1) : c \in { CrcBit(crc) } } : TRUE

\* the register after the bytes of s: each byte is folded into the low
\* byte, then eight steps
RECURSIVE CrcUpdate(_, _)
CrcUpdate(crc, s) ==
    IF s = <<>> THEN crc
    ELSE CHOOSE r \in { CrcUpdate(c, Tail(s)) :
                          c \in { CrcShift(Uint32(crc.hi, Xor(crc.lo, Head(s))), 8) } } :
             TRUE

\* helpers.GetCRCHash: crc32.ChecksumIEEE of the bytes of the text
GetCRCHash(text) ==
    LET crc == CrcUpdate(Uint32(65535, 65535), text)
    IN Uint32(65535 - crc.hi, 65535 - crc.lo)

\* "oci://"
OCIURLPrefix ==
    <<111, 99, 105, 58, 47, 47>>

\* "docker.io"
DefaultDomain ==
    <<100, 111, 99, 107, 101, 114, 46, 105, 111>>

\* "index.docker.io"
LegacyDefaultDomain ==
    <<105, 110, 100, 101, 120, 46, 100, 111, 99, 107, 101, 114, 46, 105, 111>>

\* "library/"
OfficialRepoPrefix ==
    <<108, 105, 98, 114, 97, 114, 121, 47>>

\* "latest"
DefaultTag ==
    <<108, 97, 116, 101, 115, 116>>

\* "localhost"
Localhost ==
    <<108, 111, 99, 97, 108, 104, 111, 115, 116>>

\* "sha256:"
Sha256Prefix ==
    <<115, 104, 97, 50, 53, 54, 58>>

\* "-zarf-"
ZarfSuffix ==
    <<45, 122, 97, 114, 102, 45>>

\* "nginx"
RefNginx ==
    <<110, 103, 105, 110, 120>>

\* "busybox"
RefBusybox ==
    <<98, 117, 115, 121, 98, 111, 120>>

\* "alpine"
RefAlpine ==
    <<97, 108, 112, 105, 110, 101>>

\* "ghcr.io/stefanprodan/podinfo:6.4.0"
RefPodinfo ==
    <<103, 104, 99, 114, 46, 105, 111, 47, 115, 116, 101, 102, 97, 110,
      112, 114, 111, 100, 97, 110, 47, 112, 111, 100, 105, 110, 102, 111,
      58, 54, 46, 52, 46, 48>>

\* "oci://ghcr.io/stefanprodan/podinfo:6.4.0"
RefOciPodinfo ==
    <<111, 99, 105, 58, 47, 47, 103, 104, 99, 114, 46, 105, 111, 47, 115,
      116, 101, 102, 97, 110, 112, 114, 111, 100, 97, 110, 47, 112, 111,
      100, 105, 110, 102, 111, 58, 54, 46, 52, 46, 48>>

\* "nginx@sha256:0123456789abcdef0123456789abcdef0123456789abcdef0123456789abcdef"
RefDigest ==
    <<110, 103, 105, 110, 120, 64, 115, 104, 97, 50, 53, 54, 58, 48, 49,
      50, 51, 52, 53, 54, 55, 56, 57, 97, 98, 99, 100, 101, 102, 48, 49,
      50, 51, 52, 53, 54, 55, 56, 57, 97, 98, 99, 100, 101, 102, 48, 49,
      50, 51, 52, 53, 54, 55, 56, 57, 97, 98, 99, 100, 101, 102, 48, 49,
      50, 51, 52, 53, 54, 55, 56, 57, 97, 98, 99, 100, 101, 102>>

\* "ghcr.io/a/b:1@sha256:0123456789abcdef0123456789abcdef0123456789abcdef0123456789abcdef"
RefTagDigest ==
    <<103, 104, 99, 114, 46, 105, 111, 47, 97, 47, 98, 58, 49, 64, 115,
      104, 97, 50, 53, 54, 58, 48, 49, 50, 51, 52, 53, 54, 55, 56, 57, 97,
      98, 99, 100, 101, 102, 48, 49, 50, 51, 52, 53, 54, 55, 56, 57, 97,
      98, 99, 100, 101, 102, 48, 49, 50, 51, 52, 53, 54, 55, 56, 57, 97,
      98, 99, 100, 101, 102, 48, 49, 50, 51, 52, 53, 54, 55, 56, 57, 97,
      98, 99, 100, 101, 102>>

\* "127.0.0.1:31999/library/nginx:latest-zarf-3793515731"
RefMirrored ==
    <<49, 50, 55, 46, 48, 46, 48, 46, 49, 58, 51, 49, 57, 57, 57, 47, 108,
      105, 98, 114, 97, 114, 121, 47, 110, 103, 105, 110, 120, 58, 108, 97,
      116, 101, 115, 116, 45, 122, 97, 114, 102, 45, 51, 55, 57, 51, 53,
      49, 53, 55, 51, 49>>

\* "127.0.0.1/app:v1"
RefLoopback ==
    <<49, 50, 55, 46, 48, 46, 48, 46, 49, 47, 97, 112, 112, 58, 118, 49>>

\* "Nginx"
RefUpper ==
    <<78, 103, 105, 110, 120>>

\* "0123456789abcdef0123456789abcdef0123456789abcdef0123456789abcdef"
RefIdentifier ==
    <<48, 49, 50, 51, 52, 53, 54, 55, 56, 57, 97, 98, 99, 100, 101, 102,
      48, 49, 50, 51, 52, 53, 54, 55, 56, 57, 97, 98, 99, 100, 101, 102,
      48, 49, 50, 51, 52, 53, 54, 55, 56, 57, 97, 98, 99, 100, 101, 102,
      48, 49, 50, 51, 52, 53, 54, 55, 56, 57, 97, 98, 99, 100, 101, 102>>

\* "localhost:5000/app"
RefLocalhostPort ==
    <<108, 111, 99, 97, 108, 104, 111, 115, 116, 58, 53, 48, 48, 48, 47,
      97, 112, 112>>

\* "127.0.0.1:31999"
HostMirror ==
    <<49, 50, 55, 46, 48, 46, 48, 46, 49, 58, 51, 49, 57, 57, 57>>

\* "registry.local:5000"
HostExternal ==
    <<114, 101, 103, 105, 115, 116, 114, 121, 46, 108, 111, 99, 97, 108,
      58, 53, 48, 48, 48>>

\* "nginx:"
RefEmptyTag ==
    <<110, 103, 105, 110, 120, 58>>

\* "a//b"
RefDoubleSlash ==
    <<97, 47, 47, 98>>

\* "index.docker.io/nginx:1.25"
RefLegacyDomain ==
    <<105, 110, 100, 101, 120, 46, 100, 111, 99, 107, 101, 114, 46, 105,
      111, 47, 110, 103, 105, 110, 120, 58, 49, 46, 50, 53>>

\* "ghcr.io"
HostGhcr ==
    <<103, 104, 99, 114, 46, 105, 111>>

---------------------------------------------------------------------------
(* Image references: transform.ParseImageRef and ImageTransformHost *)

\* a bare 64 character hexadecimal identifier
IsIdentifier(s) == \E t \in {s} : Len(t) = 64 /\ \A i \in 1..Len(t) : IsHex(t[i])

\* digest.Parse: a sha256 digest is "sha256:" and 64 hexadecimal characters
ValidDigest(d) ==
    HasPrefix(d, Sha256Prefix) /\ IsIdentifier(TrimPrefix(d, Sha256Prefix))

\* domain of a reference: letters, digits, '.', '-' and ':' before a port
ValidDomain(domain) ==
    \E d \in {domain} :
       /\ d # <<>>
       /\ \A i \in 1..Len(d) :
            IsLower(d[i]) \/ IsUpper(d[i]) \/ IsDigit(d[i]) \/ d[i] \in {45, 46, 58}

IsAlnumLower(c) == IsLower(c) \/ IsDigit(c)

\* repository path: lower-case components separated by '/', each starting
\* and ending with a letter or digit
ValidPath(path) ==
    \E p \in {path} :
       /\ p # <<>>
       /\ \A i \in 1..Len(p) : IsAlnumLower(p[i]) \/ p[i] \in {45, 46, 47, 95}
       /\ IsAlnumLower(p[1])
       /\ IsAlnumLower(p[Len(p)])
       /\ \A i \in 2..(Len(p) - 1) :
            p[i] = 47 => IsAlnumLower(p[i - 1]) /\ IsAlnumLower(p[i + 1])

\* tag: a word character, then up to 127 word characters, '.' or '-'
ValidTag(tag) ==
    \E t \in {tag} :
       /\ t # <<>>
       /\ Len(t) <= 128
       /\ t[1] \notin {45, 46}
       /\ \A i \in 1..Len(t) :
            IsLower(t[i]) \/ IsUpper(t[i]) \/ IsDigit(t[i]) \/ t[i] \in {45, 46, 95}

\* reference.splitDockerDomain: the part before the first '/' is the domain
\* when it has a '.' or a ':', is "localhost" or has an upper-case letter;
\* otherwise the domain is docker.io, and a docker.io name of one component
\* lives under library/
SplitDockerDomain(name) ==
    LET i == IndexRune(name, 47)
        first == SubSeq(name, 1, i - 1)
        noDomain == \/ i = 0
                    \/ /\ ~ContainsRune(first, 46)
                       /\ ~ContainsRune(first, 58)
                       /\ first # Localhost
                       /\ \A k \in 1..Len(first) : ~IsUpper(first[k])
        d0 == IF noDomain THEN DefaultDomain ELSE first
        r0 == IF noDomain THEN name ELSE SubSeq(name, i + 1, Len(name))
        d == IF d0 = LegacyDefaultDomain THEN DefaultDomain ELSE d0
        r == IF d = DefaultDomain /\ ~ContainsRune(r0, 47)
             THEN OfficialRepoPrefix \o r0 ELSE r0
    IN [domain |-> d, remainder |-> r]

NoImage ==
    [ok |-> FALSE, Host |-> <<>>, Name |-> <<>>, Path |-> <<>>, Tag |-> <<>>,
     Digest |-> <<>>, Reference |-> <<>>, TagOrDigest |-> <<>>]

\* reference.ParseAnyReference on the reference src, its domain and the
\* remainder of its name given: path, tag and digest are split off (a
\* reference with a tag and a digest keeps the digest only, one with neither
\* gets the tag "latest"), and a reference that is not a named one is an error
ParseNamed(src, split) ==
    LET rem == split.remainder
        at == IndexRune(rem, 64)
        beforeAt == IF at = 0 THEN rem ELSE SubSeq(rem, 1, at - 1)
        digest == IF at = 0 THEN <<>> ELSE SubSeq(rem, at + 1, Len(rem))
        colon == LastIndexRune(beforeAt, 58)
        hasTag == colon # 0
        path == IF hasTag THEN SubSeq(beforeAt, 1, colon - 1) ELSE beforeAt
        tag == IF hasTag THEN SubSeq(beforeAt, colon + 1, Len(beforeAt)) ELSE <<>>
        named == /\ ~IsIdentifier(src)
                 /\ ~ValidDigest(src)
                 /\ ValidDomain(split.domain)
                 /\ ValidPath(path)
                 /\ hasTag => ValidTag(tag)
                 /\ at # 0 => ValidDigest(digest)
        name == split.domain \o <<47>> \o path
        outTag == IF at # 0 THEN <<>> ELSE IF hasTag THEN tag ELSE DefaultTag
        tagOrDigest == IF at # 0 THEN <<64>> \o digest ELSE <<58>> \o outTag
    IN IF ~named THEN NoImage
       ELSE [ok |-> TRUE, Host |-> split.domain, Name |-> name, Path |-> path,
             Tag |-> outTag, Digest |-> digest,
             Reference |-> name \o tagOrDigest, TagOrDigest |-> tagOrDigest]

\* ParseImageRef: the oci:// prefix is trimmed, then the reference is parsed
ParseImageRef(srcReference) ==
    CHOOSE image \in
        { ParseNamed(parts[1], parts[2]) :
            parts \in { <<src, SplitDockerDomain(src)>> :
                          src \in { TrimPrefix(srcReference, OCIURLPrefix) } } } :
        TRUE

\* ImageTransformHost without the test for an already transformed image
ImageTransformHostAlways(targetHost, srcReference) ==
    CHOOSE r \in {
        IF ~image.ok THEN [ok |-> FALSE, ref |-> <<>>]
        ELSE IF image.Digest # <<>>
        THEN [ok |-> TRUE,
              ref |-> targetHost \o <<47>> \o image.Path \o <<64>> \o image.Digest]
        ELSE [ok |-> TRUE,
              ref |-> targetHost \o <<47>> \o image.Path \o <<58>> \o image.Tag
                        \o ZarfSuffix \o FormatDecimal(GetCRCHash(image.Name))]
        : image \in { ParseImageRef(srcReference) } } : TRUE

\* ImageTransformHost with the checksum taken of the path instead of the name
ImageTransformHostPathChecksum(targetHost, srcReference) ==
    CHOOSE r \in {
        IF ~image.ok THEN [ok |-> FALSE, ref |-> <<>>]
        ELSE IF HasPrefix(targetHost, image.Host)
        THEN [ok |-> TRUE, ref |-> srcReference]
        ELSE IF image.Digest # <<>>
        THEN [ok |-> TRUE,
              ref |-> targetHost \o <<47>> \o image.Path \o <<64>> \o image.Digest]
        ELSE [ok |-> TRUE,
              ref |-> targetHost \o <<47>> \o image.Path \o <<58>> \o image.Tag
                        \o ZarfSuffix \o FormatDecimal(GetCRCHash(image.Path))]
        : image \in { ParseImageRef(srcReference) } } : TRUE

\* ImageTransformHost
ImageTransformHost(targetHost, srcReference) ==
    CHOOSE r \in {
        IF ~image.ok THEN [ok |-> FALSE, ref |-> <<>>]
        ELSE IF HasPrefix(targetHost, image.Host)
        THEN [ok |-> TRUE, ref |-> srcReference]
        ELSE IF image.Digest # <<>>
        THEN [ok |-> TRUE,
              ref |-> targetHost \o <<47>> \o image.Path \o <<64>> \o image.Digest]
        ELSE [ok |-> TRUE,
              ref |-> targetHost \o <<47>> \o image.Path \o <<58>> \o image.Tag
                        \o ZarfSuffix \o FormatDecimal(GetCRCHash(image.Name))]
        : image \in { ParseImageRef(srcReference) } } : TRUE

\* image references handed to the transform
ImageRefs ==
    { RefNginx, RefBusybox, RefAlpine, RefPodinfo, RefOciPodinfo, RefDigest,
      RefTagDigest, RefMirrored, RefLoopback, RefUpper, RefIdentifier,
      RefLocalhostPort, RefEmptyTag, RefDoubleSlash, RefLegacyDomain, <<>> }

\* registry addresses of the Zarf state
RegistryAddresses == { HostMirror, HostExternal }

\* hosts images are moved to
TargetHosts == RegistryAddresses \cup { HostGhcr, DefaultDomain }

\* one call of ImageTransformHost
Transform ==
    /\ fpc = "in"
    /\ fout' = ImageTransformHost(fin.target, fin.ref)
    /\ fpc' = "out"
    /\ UNCHANGED fin
    /\ UNCHANGED <<cvars, dvars>>

---------------------------------------------------------------------------
(* Agent: the pod mutation hook *)

\* config.ZarfImagePullSecretName
ZarfImagePullSecretName == "private-registry"

AgentLabel == <<"zarf-agent", "patched">>

\* operations.ReplacePatchOperation / operations.AddPatchOperation
ReplacePatchOperation(path, value) == [op |-> "replace", path |-> path, value |-> value]
AddPatchOperation(path, value) == [op |-> "add", path |-> path, value |-> value]

\* the replace of the image of every container of one list of the pod spec
ContainerPatches(list, images, address) ==
    [i \in 1..Len(images) |->
        ReplacePatchOperation(<<"spec", list, ToString(i - 1), "image">>,
                              [image |-> ImageTransformHost(address, images[i]).ref])]

PodImages(pod) == pod.initContainers \o pod.ephemeralContainers \o pod.containers

\* the patch of a pod that is mutated
PodPatch(address, pod) ==
    << ReplacePatchOperation(<<"spec", "imagePullSecrets">>,
                             [secrets |-> << ZarfImagePullSecretName >>]) >>
    \o ContainerPatches("initContainers", pod.initContainers, address)
    \o ContainerPatches("ephemeralContainers", pod.ephemeralContainers, address)
    \o ContainerPatches("containers", pod.containers, address)
    \o << IF pod.labels = {}
          THEN AddPatchOperation(<<"metadata", "labels">>, [labels |-> {AgentLabel}])
          ELSE ReplacePatchOperation(<<"metadata", "labels", "zarf-agent">>,
                                     [label |-> "patched"]) >>

\* the hook without the test for the label
MutatePodAlways(address, pod) ==
    IF \E i \in 1..Len(PodImages(pod)) :
           ~ImageTransformHost(address, PodImages(pod)[i]).ok
    THEN [allowed |-> FALSE, patch |-> <<>>]
    ELSE [allowed |-> TRUE, patch |-> PodPatch(address, pod)]

\* the hook leaving the init containers alone
MutatePodSkippingInit(address, pod) ==
    IF AgentLabel \in pod.labels
    THEN [allowed |-> TRUE, patch |-> <<>>]
    ELSE IF \E i \in 1..Len(PodImages(pod)) :
                ~ImageTransformHost(address, PodImages(pod)[i]).ok
    THEN [allowed |-> FALSE, patch |-> <<>>]
    ELSE [allowed |-> TRUE,
          patch |-> PodPatch(address, [pod EXCEPT !.initContainers = <<>>])]

\* the pod hook: a pod already labelled zarf-agent=patched is allowed with no
\* patch; a failure is answered with allowed=false; otherwise the pod is
\* patched
MutatePod(address, pod) ==
    IF AgentLabel \in pod.labels
    THEN [allowed |-> TRUE, patch |-> <<>>]
    ELSE IF \E i \in 1..Len(PodImages(pod)) :
                ~ImageTransformHost(address, PodImages(pod)[i]).ok
    THEN [allowed |-> FALSE, patch |-> <<>>]
    ELSE [allowed |-> TRUE, patch |-> PodPatch(address, pod)]

\* labels of the pods admitted
PodLabels ==
    { {}, {<<"should-be", "mutated">>}, {AgentLabel},
      {<<"zarf-agent", "pending">>}, {<<"zarf.dev/agent", "skip">>},
      {<<"zarf.dev/agent", "ignore">>, <<"app", "x">>} }

SeqsUpTo(S, n) == UNION { [1..k -> S] : k \in 0..n }

Pods ==
    { [labels |-> l, initContainers |-> ic, ephemeralContainers |-> ec,
       containers |-> c] :
        l \in PodLabels,
        ic \in { <<>>, << RefBusybox >>, << RefUpper >> },
        ec \in { <<>>, << RefAlpine >> },
        c \in SeqsUpTo({ RefNginx, RefMirrored, RefUpper }, MaxContainers) \ { <<>> } }

\* the webhook registration leaves out objects labelled zarf.dev/agent=skip
\* or ignore: no admission request is sent for them
Selected(pod) ==
    \A l \in pod.labels : l[1] = "zarf.dev/agent" => l[2] \notin {"skip", "ignore"}

\* one admission request for a pod
Admit ==
    /\ fpc = "in"
    /\ fout' = IF Selected(fin.pod)
               THEN [sent |-> TRUE] @@ MutatePod(fin.address, fin.pod)
               ELSE [sent |-> FALSE, allowed |-> TRUE, patch |-> <<>>]
    /\ fpc' = "out"
    /\ UNCHANGED fin
    /\ UNCHANGED <<cvars, dvars>>

---------------------------------------------------------------------------
(* Layout: ArchivePackage *)

\* most data chunks of a split archive
MaxChunks == 999

\* bytes of one megabyte of maxPackageSizeMB
BytesPerMB == 1000000

\* the bytes from..to of the archive (a file is known by the bytes it holds)
Bytes(from, to) == [from |-> from, to |-> to]

\* SHA256 of the bytes from..to of the archive
Sha256Sum(from, to) == [sha256 |-> Bytes(from, to)]

\* the header counting itself among the chunks
SplitPackageDataCountingHeader(count, bytes, sha256Sum) ==
    [count |-> count + 1, bytes |-> bytes, sha256Sum |-> sha256Sum]

\* json.Marshal(types.ZarfSplitPackageData{Count, Bytes, Sha256Sum})
SplitPackageData(count, bytes, sha256Sum) ==
    [count |-> count, bytes |-> bytes, sha256Sum |-> sha256Sum]

\* utils.SplitFile: the file cut into chunks of chunkSize bytes, the last
\* one holding what is left, and the SHA256 of the whole file
SplitFile(size, chunkSize) ==
    LET n == (size + chunkSize - 1) \div chunkSize IN
    [chunks |-> [i \in 1..n |->
                    Bytes((i - 1) * chunkSize + 1,
                          IF i * chunkSize < size THEN i * chunkSize ELSE size)],
     sha256sum |-> Sha256Sum(1, size)]

\* sizes of the archive in bytes, and maxPackageSizeMB
ArchiveSizes ==
    { 0, 1, 999999, 1000000, 1000001, 2000000, 2000001, 3200000,
      999000000, 999000001, 1998000000, 1998000001 }

MaxPackageSizes == { -1, 0, 1, 2 }

ArchiveReturn(e) ==
    /\ fpc' = "out"
    /\ fout' = [fout EXCEPT !.err = e, !.pending = <<>>]

\* archiver.Archive writes destinationTarball
ArchiveCreate ==
    /\ fpc = "in"
    /\ \/ /\ fout' = [fout EXCEPT !.archive = TRUE]
          /\ fpc' = "archived"
       \/ ArchiveReturn("create")
    /\ UNCHANGED fin
    /\ UNCHANGED <<cvars, dvars>>

\* the split with the test for the number of chunks one too high
ArchiveSplitOffByOne ==
    /\ fpc = "archived"
    /\ LET chunkSize == fin.maxPackageSizeMB * BytesPerMB
           split == SplitFile(fin.size, chunkSize)
       IN \/ ArchiveReturn("stat")
          \/ IF fin.maxPackageSizeMB > 0 /\ fin.size > chunkSize
             THEN \/ ArchiveReturn("split")
                  \/ IF Len(split.chunks) > MaxChunks + 1
                     THEN ArchiveReturn("chunks")
                     ELSE /\ fout' = [fout EXCEPT
                                !.archive = FALSE,
                                !.pending = << SplitPackageData(Len(split.chunks),
                                                  fin.size, split.sha256sum) >>
                                            \o split.chunks]
                          /\ fpc' = "writing"
             ELSE ArchiveReturn("")
    /\ UNCHANGED fin
    /\ UNCHANGED <<cvars, dvars>>

\* os.Stat, the test for a split, utils.SplitFile, the test for the number
\* of chunks, the removal of the archive and the header put before the chunks
ArchiveSplit ==
    /\ fpc = "archived"
    /\ LET chunkSize == fin.maxPackageSizeMB * BytesPerMB
           split == SplitFile(fin.size, chunkSize)
       IN \/ ArchiveReturn("stat")
          \/ IF fin.maxPackageSizeMB > 0 /\ fin.size > chunkSize
             THEN \/ ArchiveReturn("split")
                  \/ IF Len(split.chunks) > MaxChunks
                     THEN ArchiveReturn("chunks")
                     ELSE /\ fout' = [fout EXCEPT
                                !.archive = FALSE,
                                !.pending = << SplitPackageData(Len(split.chunks),
                                                  fin.size, split.sha256sum) >>
                                            \o split.chunks]
                          /\ fpc' = "writing"
             ELSE ArchiveReturn("")
    /\ UNCHANGED fin
    /\ UNCHANGED <<cvars, dvars>>

\* one round of the loop over the chunks: os.WriteFile of
\* <destinationTarball>.part<idx>, idx being the number of parts written
ArchiveWritePart ==
    /\ fpc = "writing"
    /\ IF fout.pending = <<>>
       THEN ArchiveReturn("")
       ELSE \/ /\ fout' = [fout EXCEPT !.parts = Append(@, Head(fout.pending)),
                                       !.pending = Tail(@)]
               /\ UNCHANGED fpc
            \/ ArchiveReturn("write")
    /\ UNCHANGED fin
    /\ UNCHANGED <<cvars, dvars>>

---------------------------------------------------------------------------
(* layout.PackagePaths: Files and GenerateChecksums *)

\* "zarf.yaml"
ZarfYAML ==
    <<122, 97, 114, 102, 46, 121, 97, 109, 108>>

\* "zarf.yaml.sig"
Signature ==
    <<122, 97, 114, 102, 46, 121, 97, 109, 108, 46, 115, 105, 103>>

\* "checksums.txt"
Checksums ==
    <<99, 104, 101, 99, 107, 115, 117, 109, 115, 46, 116, 120, 116>>

\* "images"
ImagesDir ==
    <<105, 109, 97, 103, 101, 115>>

\* "components"
ComponentsDir ==
    <<99, 111, 109, 112, 111, 110, 101, 110, 116, 115>>

\* "sboms.tar"
SBOMTar ==
    <<115, 98, 111, 109, 115, 46, 116, 97, 114>>

\* "sboms"
SBOMDir ==
    <<115, 98, 111, 109, 115>>

\* "index.json"
IndexJSON ==
    <<105, 110, 100, 101, 120, 46, 106, 115, 111, 110>>

\* "oci-layout"
OCILayout ==
    <<111, 99, 105, 45, 108, 97, 121, 111, 117, 116>>

\* "/tmp/zarf-1"
LayoutBase ==
    <<47, 116, 109, 112, 47, 122, 97, 114, 102, 45, 49>>

\* ".tar"
TarExt ==
    <<46, 116, 97, 114>>

\* "a"
ContentA ==
    <<97>>

\* "b"
ContentB ==
    <<98>>

\* "ca978112ca1bbdcafac231b39a23dc4da786eff8147c4e72b9807785afee48bb"
DigestA ==
    <<99, 97, 57, 55, 56, 49, 49, 50, 99, 97, 49, 98, 98, 100, 99, 97,
      102, 97, 99, 50, 51, 49, 98, 51, 57, 97, 50, 51, 100, 99, 52, 100,
      97, 55, 56, 54, 101, 102, 102, 56, 49, 52, 55, 99, 52, 101, 55, 50,
      98, 57, 56, 48, 55, 55, 56, 53, 97, 102, 101, 101, 52, 56, 98, 98>>

\* "3e23e8160039594a33894f6564e1b1348bbd7a0088d42c4acb73eeaed59c009d"
DigestB ==
    <<51, 101, 50, 51, 101, 56, 49, 54, 48, 48, 51, 57, 53, 57, 52, 97,
      51, 51, 56, 57, 52, 102, 54, 53, 54, 52, 101, 49, 98, 49, 51, 52,
      56, 98, 98, 100, 55, 97, 48, 48, 56, 56, 100, 52, 50, 99, 52, 97,
      99, 98, 55, 51, 101, 101, 97, 101, 100, 53, 57, 99, 48, 48, 57,
      100>>

\* "images/blobs/sha256"
BlobsDir ==
    <<105, 109, 97, 103, 101, 115, 47, 98, 108, 111, 98, 115, 47, 115,
      104, 97, 50, 53, 54>>

\* filepath.Join of a directory and a name
FilepathJoin(dir, name) == dir \o <<47>> \o name

\* filepath.Ext: the suffix of the last element of the path from its last dot
Ext(path) ==
    LET elem == SubSeq(path, LastIndexRune(path, 47) + 1, Len(path))
        dot == LastIndexRune(elem, 46)
    IN IF dot = 0 THEN <<>> ELSE SubSeq(elem, dot, Len(elem))

\* stripBase: filepath.Rel(pp.Base, path) with '/' as separator, for a path
\* under pp.Base
StripBase(base, path) == TrimPrefix(path, base \o <<47>>)

\* the paths Files adds: an empty path is not added
AddedPaths(pp) ==
    ( { pp.ZarfYAML, pp.Signature, pp.Checksums,
        pp.Images.OCILayout, pp.Images.Index }
      \cup { pp.Images.Blobs[i] : i \in 1..Len(pp.Images.Blobs) }
      \cup { pp.Components.Tarballs[n] : n \in DOMAIN pp.Components.Tarballs }
      \cup (IF Ext(pp.SBOMs.Path) = TarExt THEN { pp.SBOMs.Path } ELSE {}) )
    \ { <<>> }

\* Files: the map from the path relative to pp.Base to the path
Files(pp) ==
    [ rel \in { StripBase(pp.Base, p) : p \in AddedPaths(pp) } |->
        CHOOSE p \in AddedPaths(pp) : StripBase(pp.Base, p) = rel ]

\* the order of strings: byte by byte, a proper prefix first
Less(a, b) ==
    \/ Len(a) < Len(b) /\ SubSeq(b, 1, Len(a)) = a
    \/ \E i \in 1..Len(a) :
          /\ i <= Len(b)
          /\ SubSeq(a, 1, i - 1) = SubSeq(b, 1, i - 1)
          /\ a[i] < b[i]

\* the strings left as they are
Unsorted(s) == s

\* slices.Sort of a list of strings
RECURSIVE SortStrings(_)
SortStrings(s) ==
    IF s = <<>> THEN <<>>
    ELSE LET x == s[Len(s)]
             rest == SortStrings(SubSeq(s, 1, Len(s) - 1))
             k == Cardinality({ i \in 1..Len(rest) : ~Less(x, rest[i]) })
         IN SubSeq(rest, 1, k) \o <<x>> \o SubSeq(rest, k + 1, Len(rest))

\* strings.Join(lines, "\n")
RECURSIVE JoinLines(_)
JoinLines(lines) ==
    IF lines = <<>> THEN <<>>
    ELSE IF Len(lines) = 1 THEN lines[1]
    ELSE lines[1] \o <<10>> \o JoinLines(Tail(lines))

\* SHA256 in hexadecimal: the digests of the two contents files hold here,
\* and the digest of any other content kept as a term
Sha256Hex(content) ==
    IF content = ContentA THEN DigestA
    ELSE IF content = ContentB THEN DigestB
    ELSE [sha256 |-> content]

\* what the file at a path relative to the base holds
ContentOf(rel) ==
    IF rel \in { Signature, FilepathJoin(ImagesDir, IndexJSON),
                 FilepathJoin(BlobsDir, DigestA), SBOMTar }
    THEN ContentA ELSE ContentB

\* lists of blobs of the image layout, by the content they hold
BlobLists == { <<>>, <<ContentB>>, <<ContentA, ContentA>> }

\* layout.New(base), addSignature, AddImages / AddBlob, a component tarball
\* and SBOMs.Path
PackagePaths(base, signed, images, blobs, tarballs, sboms) ==
    [ Base |-> base,
      ZarfYAML |-> FilepathJoin(base, ZarfYAML),
      Checksums |-> FilepathJoin(base, Checksums),
      Signature |-> IF signed THEN FilepathJoin(base, Signature) ELSE <<>>,
      Images |->
        [ OCILayout |-> IF images
                        THEN FilepathJoin(base, FilepathJoin(ImagesDir, OCILayout))
                        ELSE <<>>,
          Index |-> IF images
                    THEN FilepathJoin(base, FilepathJoin(ImagesDir, IndexJSON))
                    ELSE <<>>,
          Blobs |-> [ i \in 1..Len(blobs) |->
                        FilepathJoin(base,
                            FilepathJoin(BlobsDir, Sha256Hex(blobs[i]))) ] ],
      Components |->
        [ Tarballs |-> [ n \in tarballs |->
                           FilepathJoin(base, FilepathJoin(ComponentsDir,
                               IF n = "a" THEN <<97>> \o TarExt
                                          ELSE <<98>> \o TarExt)) ] ],
      SBOMs |-> [ Path |-> IF sboms = <<>> THEN <<>>
                           ELSE FilepathJoin(base, sboms) ] ]

\* the layouts GenerateChecksums runs on
Layouts ==
    { PackagePaths(LayoutBase, signed, blobs # <<>> \/ images, blobs, tarballs, sboms) :
        signed \in BOOLEAN, images \in BOOLEAN, blobs \in BlobLists,
        tarballs \in SUBSET {"a"}, sboms \in { <<>>, SBOMTar, SBOMDir } }

ChecksumReturn(sum, e) ==
    /\ fpc' = "out"
    /\ fout' = [fout EXCEPT !.sum = sum, !.err = e]

\* one round of the loop over the map Files gives, in any order:
\* zarf.yaml and checksums.txt are skipped, every other file gives a line
ChecksumFile ==
    /\ fpc = "in"
    /\ fout.rest # {}
    /\ \E rel \in fout.rest :
          IF rel = ZarfYAML \/ rel = Checksums
          THEN /\ fout' = [fout EXCEPT !.rest = @ \ {rel}]
               /\ UNCHANGED fpc
          ELSE IF rel \in fin.missing
          THEN /\ fpc' = "out"
               /\ fout' = [fout EXCEPT !.sum = <<>>, !.err = "read"]
          ELSE /\ fout' = [fout EXCEPT
                     !.rest = @ \ {rel},
                     !.checksumsData =
                         Append(@, Sha256Hex(ContentOf(rel)) \o <<32>> \o rel)]
               /\ UNCHANGED fpc
    /\ UNCHANGED fin
    /\ UNCHANGED <<cvars, dvars>>

\* slices.Sort, utils.WriteFile of pp.Checksums and the SHA256 of that file
ChecksumWrite ==
    /\ fpc = "in"
    /\ fout.rest = {}
    /\ LET data == SortStrings(fout.checksumsData)
           content == JoinLines(data) \o <<10>>
       IN \/ ChecksumReturn(<<>>, "write")
          \/ /\ fpc' = "out"
             /\ \/ fout' = [fout EXCEPT !.written = TRUE, !.file = content,
                                        !.sum = Sha256Hex(content)]
                \/ fout' = [fout EXCEPT !.written = TRUE, !.file = content,
                                        !.sum = <<>>, !.err = "read"]
    /\ UNCHANGED fin
    /\ UNCHANGED <<cvars, dvars>>

---------------------------------------------------------------------------
(* packager.Remove and the secret of the deployed package *)

\* ""
ListNone ==
    <<>>

\* "a"
ListA ==
    <<97>>

\* "b"
ListB ==
    <<98>>

\* "a,b"
ListAB ==
    <<97, 44, 98>>

\* "c"
ListC ==
    <<99>>

\* ",a"
ListEmptyFirst ==
    <<44, 97>>

\* strings.Split(s, sep) for a separator of one character: the parts between
\* the separators, one empty part for the empty string
RECURSIVE Split(_, _)
Split(s, sep) ==
    IF IndexRune(s, sep) = 0 THEN << s >>
    ELSE << SubSeq(s, 1, IndexRune(s, sep) - 1) >>
         \o Split(SubSeq(s, IndexRune(s, sep) + 1, Len(s)), sep)

\* names of the components a package deployed
DeployedNames == { ListA, ListB }

\* values of config.DeployOptions.Components
RequestedLists == { ListNone, ListA, ListB, ListAB, ListC, ListEmptyFirst }

\* the secret zarf/zarf-package-<name>: absent, or holding the record of the
\* deployed components
NoSecret == [exists |-> FALSE, deployedComponents |-> {}]

PackageSecret(deployedComponents) ==
    [exists |-> TRUE, deployedComponents |-> deployedComponents]

\* k8s.DeleteSecret: the secret is deleted, or the call fails and the secret
\* is left
DeleteSecret(secret) == { NoSecret, secret }

\* k8s.ReplaceSecret: CreateNamespace or the delete fails and the secret is
\* left, the create fails after the delete and no secret is left, or the new
\* secret is stored
ReplaceSecret(secret, newSecret) == { secret, NoSecret, newSecret }

\* helm.RemoveChart on the charts of a component: they are removed, or the
\* call fails and they are left
RemoveChart(charts, componentName) == { charts \ {componentName}, charts }

\* k8s.GetSecret, json.Unmarshal and strings.Split of the components
RemoveGetSecret ==
    /\ fpc = "in"
    /\ \/ /\ fpc' = "out"
          /\ fout' = [fout EXCEPT !.err = "get"]
       \/ LET requestedComponents == Split(fin.components, 44)
              requested == Len(requestedComponents) > 0
                             /\ requestedComponents[1] # <<>>
          IN /\ fout' = [fout EXCEPT
                    !.deployedComponents = fout.secret.deployedComponents,
                    !.todo = fout.secret.deployedComponents]
             /\ fpc' = IF ~requested THEN "all"
                       ELSE IF fout.secret.deployedComponents = {} THEN "out"
                       ELSE "requested"
    /\ UNCHANGED fin
    /\ UNCHANGED <<cvars, dvars>>

\* one round of the loop over the deployed components when components were
\* requested: the charts of a requested component are removed and the
\* component is deleted from the record; then the secret is deleted when the
\* record is empty and replaced otherwise, errors of both being let go
RemoveRequested ==
    /\ fpc = "requested"
    /\ \E componentName \in fout.todo :
          LET hit == \E i \in 1..Len(Split(fin.components, 44)) :
                         Split(fin.components, 44)[i] = componentName
              deployedComponents == IF hit
                                    THEN fout.deployedComponents \ {componentName}
                                    ELSE fout.deployedComponents
          IN \E charts \in (IF hit THEN RemoveChart(fout.charts, componentName)
                                   ELSE {fout.charts}) :
             \E secret \in (IF deployedComponents = {}
                            THEN DeleteSecret(fout.secret)
                            ELSE ReplaceSecret(fout.secret,
                                               PackageSecret(deployedComponents))) :
                /\ fout' = [fout EXCEPT !.deployedComponents = deployedComponents,
                                        !.todo = fout.todo \ {componentName},
                                        !.charts = charts,
                                        !.secret = secret]
                /\ fpc' = IF fout.todo = {componentName} THEN "out" ELSE "requested"
    /\ UNCHANGED fin
    /\ UNCHANGED <<cvars, dvars>>

\* one round of the loop over the deployed components when no component was
\* requested: the charts of the component are removed
RemoveAllCharts ==
    /\ fpc = "all"
    /\ \E componentName \in fout.todo :
       \E charts \in RemoveChart(fout.charts, componentName) :
          fout' = [fout EXCEPT !.todo = fout.todo \ {componentName},
                               !.charts = charts]
    /\ UNCHANGED <<fpc, fin>>
    /\ UNCHANGED <<cvars, dvars>>

\* k8s.DeleteSecret after that loop
RemoveAllSecret ==
    /\ fpc = "all"
    /\ fout.todo = {}
    /\ \E secret \in DeleteSecret(fout.secret) :
          fout' = [fout EXCEPT !.secret = secret]
    /\ fpc' = "out"
    /\ UNCHANGED fin
    /\ UNCHANGED <<cvars, dvars>>

---------------------------------------------------------------------------
(* Packager.publish: the push of a package to an OCI registry *)

\* what the copy of a node to the registry gives: the registry holds the node
\* already and it is skipped, the push succeeds, the registry raises an error
\* for a manifest type it does not support, or any other error
PushResults == { "exists", "ok", "unsupported", "other" }

\* the node is at the registry after the copy
Copied(result) == result \in { "exists", "ok" }

\* isManifestUnsupported(err)
IsManifestUnsupported(e) == e = "unsupported"

\* one push as the registry saw it
Pushed(what, result) == [what |-> what, result |-> result]

PublishReturn(e, log) ==
    /\ fpc' = "out"
    /\ fout' = [fout EXCEPT !.err = e, !.log = log]

\* store.Add of every path and pack(ocispec.MediaTypeArtifactManifest)
PublishPack ==
    /\ fpc = "in"
    /\ \/ PublishReturn("other", fout.log)
       \/ /\ fout' = [fout EXCEPT !.descs = fin.paths, !.root = "artifact"]
          /\ fpc' = "copy"
    /\ UNCHANGED fin
    /\ UNCHANGED <<cvars, dvars>>

\* oras.Copy of the artifact manifest, one node at a time, the layers before
\* the root: a node the registry holds is skipped; for any other PreCopy
\* notes that the root is reached, then the node is pushed
PublishCopy ==
    /\ fpc = "copy"
    /\ LET atRoot == fout.copied = fout.descs
           what == IF atRoot THEN fout.root ELSE "layer"
       IN \E result \in PushResults :
             /\ fout' = [fout EXCEPT
                    !.copyRootAttempted = @ \/ (atRoot /\ result # "exists"),
                    !.copied = IF Copied(result) THEN @ + 1 ELSE @,
                    !.err = IF Copied(result) THEN "" ELSE result,
                    !.log = Append(@, Pushed(what, result))]
             /\ fpc' = IF Copied(result) /\ ~atRoot THEN "copy" ELSE "copied"
    /\ UNCHANGED fin
    /\ UNCHANGED <<cvars, dvars>>

\* what follows the copy with the fallback taken on any unsupported manifest
\* error
PublishFallbackAnyUnsupported ==
    /\ fpc = "copied"
    /\ IF fout.err = "" THEN PublishReturn("", fout.log)
       ELSE IF ~IsManifestUnsupported(fout.err) THEN PublishReturn(fout.err, fout.log)
       ELSE \/ PublishReturn("other", Append(fout.log, Pushed("config", "other")))
            \/ PublishReturn("other", Append(fout.log, Pushed("config", "ok")))
            \/ /\ fout' = [fout EXCEPT !.log = Append(@, Pushed("config", "ok")),
                                       !.root = "image", !.err = ""]
               /\ fpc' = "copyImage"
    /\ UNCHANGED fin
    /\ UNCHANGED <<cvars, dvars>>

\* what follows the copy: success, the error returned when the root was not
\* reached or the error is not a manifest-unsupported one, and otherwise the
\* fallback: generateManifestConfigFile, dst.Push of the config and
\* pack(ocispec.MediaTypeImageManifest)
PublishFallback ==
    /\ fpc = "copied"
    /\ IF fout.err = "" THEN PublishReturn("", fout.log)
       ELSE IF ~fout.copyRootAttempted THEN PublishReturn(fout.err, fout.log)
       ELSE IF ~IsManifestUnsupported(fout.err) THEN PublishReturn(fout.err, fout.log)
       ELSE \/ PublishReturn("other", Append(fout.log, Pushed("config", "other")))
            \/ PublishReturn("other", Append(fout.log, Pushed("config", "ok")))
            \/ /\ fout' = [fout EXCEPT !.log = Append(@, Pushed("config", "ok")),
                                       !.root = "image", !.err = ""]
               /\ fpc' = "copyImage"
    /\ UNCHANGED fin
    /\ UNCHANGED <<cvars, dvars>>

\* oras.Copy of the image manifest: its successor is the config, which the
\* registry holds already
PublishCopyImage ==
    /\ fpc = "copyImage"
    /\ \E result \in PushResults :
          PublishReturn(IF Copied(result) THEN "" ELSE result,
                        Append(fout.log, Pushed(fout.root, result)))
    /\ UNCHANGED fin
    /\ UNCHANGED <<cvars, dvars>>

---------------------------------------------------------------------------
(* Packager.Create *)

\* one call Create made, and whether it succeeded (for confirmAction: whether
\* the action was confirmed)
Called(call, ok) == [call |-> call, ok |-> ok]

CreateReturn(e, call) ==
    /\ fpc' = "out"
    /\ fout' = [fout EXCEPT !.err = e, !.calls = Append(@, call)]

CreateStep(pc, call) ==
    /\ fpc' = pc
    /\ fout' = [fout EXCEPT !.calls = Append(@, call)]

\* os.Getwd and creator.CdToBaseDir: the working directory becomes the base
\* directory when one is given
CreateCdToBaseDir ==
    /\ fpc = "in"
    /\ \/ CreateReturn("getwd", Called("Getwd", FALSE))
       \/ CreateReturn("chdir", Called("CdToBaseDir", FALSE))
       \/ /\ fpc' = "load"
          /\ fout' = [fout EXCEPT
                 !.calls = Append(@, Called("CdToBaseDir", TRUE)),
                 !.dir = IF fin.baseDir = "" THEN @ ELSE fin.baseDir]
    /\ UNCHANGED fin
    /\ UNCHANGED <<cvars, dvars>>

\* c.LoadPackageDefinition: the warnings are appended to p.warnings
CreateLoad ==
    /\ fpc = "load"
    /\ \/ CreateReturn("load", Called("LoadPackageDefinition", FALSE))
       \/ /\ fpc' = "validate"
          /\ fout' = [fout EXCEPT
                 !.calls = Append(@, Called("LoadPackageDefinition", TRUE)),
                 !.warnings = @ + fin.warnings]
    /\ UNCHANGED fin
    /\ UNCHANGED <<cvars, dvars>>

\* validate.Run with its error let go
CreateValidateIgnoringError ==
    /\ fpc = "validate"
    /\ \/ CreateStep("confirm", Called("validate.Run", FALSE))
       \/ CreateStep("confirm", Called("validate.Run", TRUE))
    /\ UNCHANGED fin
    /\ UNCHANGED <<cvars, dvars>>

\* validate.Run
CreateValidate ==
    /\ fpc = "validate"
    /\ \/ CreateReturn("validate", Called("validate.Run", FALSE))
       \/ CreateStep("confirm", Called("validate.Run", TRUE))
    /\ UNCHANGED fin
    /\ UNCHANGED <<cvars, dvars>>

\* p.confirmAction: true with --confirm, the answer of the user otherwise
CreateConfirm ==
    /\ fpc = "confirm"
    /\ IF fin.confirm = "no"
       THEN CreateReturn("canceled", Called("confirmAction", FALSE))
       ELSE CreateStep("assemble", Called("confirmAction", TRUE))
    /\ UNCHANGED fin
    /\ UNCHANGED <<cvars, dvars>>

\* c.Assemble
CreateAssemble ==
    /\ fpc = "assemble"
    /\ \/ CreateReturn("assemble", Called("Assemble", FALSE))
       \/ CreateStep("output", Called("Assemble", TRUE))
    /\ UNCHANGED fin
    /\ UNCHANGED <<cvars, dvars>>

\* os.Chdir back to the working directory and c.Output
CreateOutput ==
    /\ fpc = "output"
    /\ \/ CreateReturn("chdir", Called("Chdir", FALSE))
       \/ \E ok \in BOOLEAN :
             /\ fpc' = "out"
             /\ fout' = [fout EXCEPT
                    !.calls = Append(@, Called("Output", ok)),
                    !.dir = "cwd",
                    !.err = IF ok THEN "" ELSE "output"]
    /\ UNCHANGED fin
    /\ UNCHANGED <<cvars, dvars>>

---------------------------------------------------------------------------
(* Validation of component actions *)

\* action.Wait: nil, or a wait with Cluster and Network nil or not
NoWait == [set |-> FALSE, Cluster |-> FALSE, Network |-> FALSE]

Waits == [set : {TRUE}, Cluster : BOOLEAN, Network : BOOLEAN]

\* the actions validated
Actions == [Cmd : {"", "echo"}, Wait : {NoWait} \cup Waits]

\* ZarfComponentAction.Validate: the errors joined, none for nil
ActionValidate(action) ==
    IF action.Wait.set
    THEN (IF action.Cmd # "" THEN << "PkgValidateErrActionCmdWait" >> ELSE <<>>)
         \o (IF action.Wait.Cluster /\ action.Wait.Network
             THEN << "PkgValidateErrActionClusterNetwork" >> ELSE <<>>)
         \o (IF ~action.Wait.Cluster /\ ~action.Wait.Network
             THEN << "PkgValidateErrActionClusterNetwork" >> ELSE <<>>)
    ELSE <<>>

\* the closure validate of ZarfComponentActionSet.Validate: the errors of the
\* actions of one list, in order
RECURSIVE ValidateActions(_)
ValidateActions(actions) ==
    IF actions = <<>> THEN <<>>
    ELSE ActionValidate(Head(actions)) \o ValidateActions(Tail(actions))

\* ZarfComponentActionSet.Validate
ActionSetValidate(as) ==
    ValidateActions(as.Before) \o ValidateActions(as.After)
        \o ValidateActions(as.OnFailure) \o ValidateActions(as.OnSuccess)

\* the action sets validated
ActionSets ==
    [ Before : SeqsUpTo(Actions, MaxActions),
      After : SeqsUpTo(Actions, MaxActions),
      OnFailure : { <<>>, << [Cmd |-> "", Wait |-> NoWait] >> },
      OnSuccess : { <<>>, << [Cmd |-> "echo", Wait |-> NoWait] >> } ]

\* the validation of an action set
ValidateActionSet ==
    /\ fpc = "in"
    /\ fpc' = "out"
    /\ fout' = [err |-> ActionSetValidate(fin)]
    /\ UNCHANGED fin
    /\ UNCHANGED <<cvars, dvars>>

---------------------------------------------------------------------------
(* ZarfPackage.Validate *)

\* components of the packages validated: without constants, charts,
\* manifests and actions
PlainComponent(name) ==
    [Name |-> name, Images |-> 0, Repos |-> 0, Architecture |-> "",
     Distros |-> 0, Required |-> FALSE, Default |-> FALSE, DeprecatedGroup |-> ""]

ValidatedComponents ==
    [Name : {"a", "b"}, Images : 0..1, Repos : 0..1, Architecture : {"", "amd64"},
     Distros : 0..1, Required : {FALSE}, Default : {FALSE}, DeprecatedGroup : {""}]
    \cup { [PlainComponent("a") EXCEPT !.Required = TRUE, !.Default = TRUE,
                                       !.DeprecatedGroup = "g"],
           [PlainComponent("b") EXCEPT !.Default = TRUE, !.DeprecatedGroup = "g"] }

\* the checks of a YOLO package on one component, the distros left out
YOLOErrorsWithoutDistros(component) ==
    (IF component.Images > 0 THEN << "PkgValidateErrYOLONoOCI" >> ELSE <<>>)
    \o (IF component.Repos > 0 THEN << "PkgValidateErrYOLONoGit" >> ELSE <<>>)
    \o (IF component.Architecture # "" THEN << "PkgValidateErrYOLONoArch" >> ELSE <<>>)

\* the checks of a YOLO package on one component
YOLOErrors(component) ==
    (IF component.Images > 0 THEN << "PkgValidateErrYOLONoOCI" >> ELSE <<>>)
    \o (IF component.Repos > 0 THEN << "PkgValidateErrYOLONoGit" >> ELSE <<>>)
    \o (IF component.Architecture # "" THEN << "PkgValidateErrYOLONoArch" >> ELSE <<>>)
    \o (IF component.Distros > 0 THEN << "PkgValidateErrYOLONoDistro" >> ELSE <<>>)

\* the loop over the components of a YOLO package
RECURSIVE YOLOComponents(_)
YOLOComponents(components) ==
    IF components = <<>> THEN <<>>
    ELSE YOLOErrors(Head(components)) \o YOLOComponents(Tail(components))

\* the checks of the second loop on the i-th component: the name is that of
\* no earlier component, a required component is neither a default nor
\* grouped, and a group has one default
ComponentErrors(components, i) ==
    LET component == components[i]
        earlier == { components[j] : j \in 1..(i - 1) }
    IN (IF \E c \in earlier : c.Name = component.Name
        THEN << "PkgValidateErrComponentNameNotUnique" >> ELSE <<>>)
       \o (IF component.Required /\ component.Default
           THEN << "PkgValidateErrComponentReqDefault" >> ELSE <<>>)
       \o (IF component.Required /\ component.DeprecatedGroup # ""
           THEN << "PkgValidateErrComponentReqGrouped" >> ELSE <<>>)
       \o (IF /\ component.DeprecatedGroup # ""
              /\ component.Default
              /\ \E c \in earlier :
                    c.Default /\ c.DeprecatedGroup = component.DeprecatedGroup
           THEN << "PkgValidateErrGroupMultipleDefaults" >> ELSE <<>>)

RECURSIVE ComponentsErrors(_, _)
ComponentsErrors(components, i) ==
    IF i > Len(components) THEN <<>>
    ELSE ComponentErrors(components, i) \o ComponentsErrors(components, i + 1)

\* the loop over the groups: a group of one component is an error
GroupErrors(components) ==
    IF \E g \in { components[i].DeprecatedGroup : i \in 1..Len(components) } \ {""} :
          Cardinality({ i \in 1..Len(components) :
                          components[i].DeprecatedGroup = g }) = 1
    THEN << "PkgValidateErrGroupOneComponent" >> ELSE <<>>

\* ZarfPackage.Validate: the errors joined, none for nil
PackageValidate(pkg) ==
    (IF pkg.Kind = "ZarfInitConfig" /\ pkg.YOLO
     THEN << "PkgValidateErrInitNoYOLO" >> ELSE <<>>)
    \o (IF pkg.YOLO THEN YOLOComponents(pkg.Components) ELSE <<>>)
    \o ComponentsErrors(pkg.Components, 1)
    \o GroupErrors(pkg.Components)

\* the validation of a package
ValidatePackage ==
    /\ fpc = "in"
    /\ fpc' = "out"
    /\ fout' = [err |-> PackageValidate(fin)]
    /\ UNCHANGED fin
    /\ UNCHANGED <<cvars, dvars>>

-----------------------------------------------------------------------------
(* waitForPodsAndContainers (src/pkg/cluster/data.go)                      *)

\* context.WithTimeout(ctx, 90*time.Second), in seconds
WaitTimeout == 90

\* timer.Reset(3 * time.Second), in seconds
PollInterval == 3

\* What a pod of the cluster reports. status is about the container named as
\* the injection's target: "InitRunning" has it running among the init
\* containers (the pod phase is Pending), "ContainerRunning" among the
\* regular containers (the pod phase is Running); "Running" is a running pod
\* whose target container is not running, "Pending" a pod with nothing
\* running. A container name is used once in a pod, so that one container is
\* never found in both status lists.
PodStates ==
    [created : 1..2, selected : BOOLEAN, marked : BOOLEAN,
     status : {"Pending", "Running", "InitRunning", "ContainerRunning"}]

PodNames == {"p1", "p2"}

\* corev1.Pod
Pod(name, s) ==
    [name |-> name, created |-> s.created, selected |-> s.selected,
     marked |-> s.marked, status |-> s.status]

\* The states of the cluster: pods have distinct names
Clusters ==
    UNION { { { Pod(n, f[n]) : n \in N } : f \in [N -> PodStates] } :
              N \in SUBSET PodNames }

\* podLookup
Lookups == [Container : {"", "c"}]

\* clientset.CoreV1().Pods(target.Namespace).List with the LabelSelector
List(pods) == { pod \in pods : pod.selected }

\* sort.Slice(podList.Items, ... CreationTimestamp.After ...): the orders
\* the sort may leave pods of one timestamp in
SortNewestFirst(items) ==
    { s \in [1..Cardinality(items) -> items] :
        /\ \A i, j \in 1..Cardinality(items) : i # j => s[i] # s[j]
        /\ \A i, j \in 1..Cardinality(items) :
              i < j => s[i].created >= s[j].created }

\* include != nil && !include(pod), negated
Included(pod, include) == include = "nil" \/ pod.marked

\* the pod phase, whatever container is targeted
PodReadyByPhase(pod, target) ==
    pod.status \in {"Running", "ContainerRunning"}

\* the running match among the init containers or the regular containers,
\* or the pod phase when no container is targeted
PodReady(pod, target) ==
    IF target.Container # ""
    THEN pod.status \in {"InitRunning", "ContainerRunning"}
    ELSE pod.status \in {"Running", "ContainerRunning"}

\* the loop over podList.Items: readyPods
RECURSIVE ReadyPods(_, _, _)
ReadyPods(items, target, include) ==
    IF items = <<>> THEN <<>>
    ELSE IF Included(Head(items), include) /\ PodReady(Head(items), target)
         THEN IF target.Container # ""
              THEN <<Head(items)>> \o ReadyPods(Tail(items), target, include)
              ELSE <<Head(items)>>
         ELSE ReadyPods(Tail(items), target, include)

\* case <-waitCtx.Done(): the 90 seconds are over or the caller's context is
\* done
WaitSelectDone ==
    /\ fpc = "select"
    /\ fout.cancelled \/ fout.elapsed >= WaitTimeout
    /\ fpc' = "returned"
    /\ fout' = [fout EXCEPT !.result = <<>>]
    /\ UNCHANGED fin
    /\ UNCHANGED <<cvars, dvars>>

\* case <-timer.C: one listing of the pods. The listing fails when the
\* caller's context is done, and may fail at any time; the timer is set
\* again when no pod is ready. A listing takes time, so that the timer set
\* after it never fires before the 90 seconds are over once they are due.
WaitSelectTimer ==
    /\ fpc = "select"
    /\ fout.elapsed < WaitTimeout
    /\ \/ /\ fpc' = "returned"
          /\ fout' = [fout EXCEPT !.listErr = TRUE, !.result = <<>>]
       \/ /\ ~fout.cancelled
          /\ \E pods \in Clusters :
               \E items \in SortNewestFirst(List(pods)) :
                 \E readyPods \in { ReadyPods(items, fin.target, fin.include) } :
                    IF Len(readyPods) > 0
                    THEN /\ fpc' = "returned"
                         /\ fout' = [fout EXCEPT !.pods = pods, !.result = readyPods]
                    ELSE /\ fpc' = "select"
                         /\ fout' = [fout EXCEPT !.pods = {},
                                       !.elapsed = fout.elapsed + PollInterval]
    /\ UNCHANGED fin
    /\ UNCHANGED <<cvars, dvars>>

\* the caller cancels the context
WaitCancel ==
    /\ fpc = "select"
    /\ ~fout.cancelled
    /\ fout' = [fout EXCEPT !.cancelled = TRUE]
    /\ UNCHANGED <<fpc, fin>>
    /\ UNCHANGED <<cvars, dvars>>

-----------------------------------------------------------------------------
(* HandleDataInjection (src/pkg/cluster/data.go) and the tasks of one      *)
(* component (performDataInjections)                                        *)

MaxInjections == 2

\* types.ZarfDataInjection: base is filepath.Base(data.Target.Path)
DataInjections == [base : {"a", "b"}]

\* strconv.Itoa(dataIdx)
Itoa(dataIdx) == <<"0", "1", "2", "3">>[dataIdx + 1]

\* filepath.Join(componentPath.DataInjections, config.GetDataInjectionMarker())
InjectionCompletionMarker == <<"marker">>

\* filepath.Join(componentPath.DataInjections, filepath.Base(data.Target.Path))
SourcePath(data) == <<data.base>>

\* filepath.Join(componentPath.DataInjections, strconv.Itoa(dataIdx), ...)
IndexedSourcePath(data, dataIdx) == <<Itoa(dataIdx), data.base>>

NoSource == <<>>

\* the source of an injection: the path of its base name and, when that one
\* is invalid, the path with the index
Source(files, data, dataIdx) ==
    IF SourcePath(data) \in files THEN SourcePath(data)
    ELSE IF IndexedSourcePath(data, dataIdx) \in files
         THEN IndexedSourcePath(data, dataIdx)
         ELSE NoSource

\* the directories the package holds for its injections: the data of each
\* injection under its base name, or under its index, or no data
PackagedFiles(injections) ==
    { { SourcePath(injections[i]) : i \in 1..Len(injections) },
      { IndexedSourcePath(injections[i], i - 1) : i \in 1..Len(injections) },
      {} }

\* the pods an injection waits for: both carry the marker and match the
\* selector, p2 is the newer one
InjectionClusters ==
    { { Pod("p1", [created |-> 1, selected |-> TRUE, marked |-> TRUE, status |-> s1]),
        Pod("p2", [created |-> 2, selected |-> TRUE, marked |-> TRUE, status |-> s2]) } :
        s1 \in {"Pending", "InitRunning"}, s2 \in {"Pending", "InitRunning"} }

\* what waitForPodsAndContainers returns to the task: nothing once the
\* context is done, and else nothing or the ready pods of the cluster
PodsFound(cancelled, target) ==
    IF cancelled THEN { <<>> }
    ELSE { <<>> } \cup
         UNION { { ReadyPods(items, target, "marker") :
                     items \in SortNewestFirst(List(pods)) } :
                   pods \in InjectionClusters }

\* a task before it runs, and at the head of a pass of its loop: log holds
\* the steps of the pass, each with the pod and whether it succeeded
NewTask ==
    [pc |-> "new", source |-> NoSource, pods |-> <<>>, k |-> 1, log |-> <<>>,
     removed |-> FALSE]

\* return, with the deferred wg.Done()
TaskReturn(i) ==
    [fout EXCEPT !.tasks[i].pc = "done", !.wg = fout.wg - 1]

\* a failed step that goes on with the next pod
AfterFailureNextPod(t) ==
    IF t.k < Len(t.pods) THEN [t EXCEPT !.pc = "mkdir", !.k = t.k + 1]
    ELSE [t EXCEPT !.pc = "final"]

\* continue iterator
AfterFailure(t) == [t EXCEPT !.pc = "source"]

\* performDataInjections: waitGroup.Add(1) and go HandleDataInjection for
\* each injection
PerformDataInjectionsStart ==
    /\ fpc = "start"
    /\ fpc' = "wait"
    /\ fout' = [fout EXCEPT
                  !.tasks = [i \in 1..Len(fin.injections) |->
                               [NewTask EXCEPT !.pc = "marker"]],
                  !.wg = Len(fin.injections)]
    /\ UNCHANGED fin
    /\ UNCHANGED <<cvars, dvars>>

\* defer waitGroup.Wait()
PerformDataInjectionsWait ==
    /\ fpc = "wait"
    /\ fout.wg = 0
    /\ fpc' = "returned"
    /\ UNCHANGED <<fin, fout>>
    /\ UNCHANGED <<cvars, dvars>>

\* os.WriteFile(injectionCompletionMarker, ...)
InjectWriteMarker(i) ==
    /\ fout.tasks[i].pc = "marker"
    /\ \/ fout' = [fout EXCEPT !.tasks[i].pc = "tar",
                               !.files = fout.files \cup {InjectionCompletionMarker}]
       \/ fout' = TaskReturn(i)
    /\ UNCHANGED <<fpc, fin>>
    /\ UNCHANGED <<cvars, dvars>>

\* exec.Cmd(shell, "tar --version")
InjectCheckTar(i) ==
    /\ fout.tasks[i].pc = "tar"
    /\ \/ fout' = [fout EXCEPT !.tasks[i].pc = "source"]
       \/ fout' = TaskReturn(i)
    /\ UNCHANGED <<fpc, fin>>
    /\ UNCHANGED <<cvars, dvars>>

\* the head of the loop: the source path, valid under one of its two names
InjectFindSource(i) ==
    /\ fout.tasks[i].pc = "source"
    /\ \E source \in { Source(fout.files, fin.injections[i], i - 1) } :
         IF source = NoSource
         THEN fout' = [TaskReturn(i) EXCEPT !.tasks[i] = [NewTask EXCEPT !.pc = "done"]]
         ELSE fout' = [fout EXCEPT !.tasks[i] =
                         [NewTask EXCEPT !.pc = "wait", !.source = source]]
    /\ UNCHANGED <<fpc, fin>>
    /\ UNCHANGED <<cvars, dvars>>

\* pods := waitForPodsAndContainers(ctx, ...) for the target container
InjectWaitForPods(i) ==
    /\ fout.tasks[i].pc = "wait"
    /\ \E pods \in PodsFound(fout.cancelled, [Container |-> "c"]) :
         IF Len(pods) < 1
         THEN fout' = [fout EXCEPT !.tasks[i].pc = "source"]
         ELSE fout' = [fout EXCEPT !.tasks[i].pc = "mkdir",
                         !.tasks[i].pods = [n \in 1..Len(pods) |-> pods[n].name]]
    /\ UNCHANGED <<fpc, fin>>
    /\ UNCHANGED <<cvars, dvars>>

\* mkdirCmd: the target directory in the pod
InjectMkdir(i) ==
    /\ fout.tasks[i].pc = "mkdir"
    /\ \E t \in { fout.tasks[i] } : \E ok \in BOOLEAN :
         \E done \in { [t EXCEPT !.log = Append(t.log, <<"mkdir", t.pods[t.k], ok>>)] } :
           fout' = [fout EXCEPT !.tasks[i] =
                      IF ok THEN [done EXCEPT !.pc = "copy"] ELSE AfterFailure(done)]
    /\ UNCHANGED <<fpc, fin>>
    /\ UNCHANGED <<cvars, dvars>>

\* cpPodCmd: tar of the source into the pod; it fails when the source is gone
InjectCopyData(i) ==
    /\ fout.tasks[i].pc = "copy"
    /\ \E t \in { fout.tasks[i] } :
         \E ok \in { b \in BOOLEAN : b => t.source \in fout.files } :
           \E done \in { [t EXCEPT !.log = Append(t.log, <<"copy", t.pods[t.k], ok>>)] } :
             fout' = [fout EXCEPT !.tasks[i] =
                        IF ok THEN [done EXCEPT !.pc = "copymarker"]
                        ELSE AfterFailure(done)]
    /\ UNCHANGED <<fpc, fin>>
    /\ UNCHANGED <<cvars, dvars>>

\* cpPodCmd: tar of the completion marker into the pod, and the next pod
InjectCopyMarker(i) ==
    /\ fout.tasks[i].pc = "copymarker"
    /\ \E t \in { fout.tasks[i] } :
         \E ok \in { b \in BOOLEAN : b => InjectionCompletionMarker \in fout.files } :
           \E done \in { [t EXCEPT !.log = Append(t.log, <<"copymarker", t.pods[t.k], ok>>)] } :
             fout' = [fout EXCEPT !.tasks[i] =
                        IF ~ok THEN AfterFailure(done)
                        ELSE IF t.k < Len(t.pods)
                             THEN [done EXCEPT !.pc = "mkdir", !.k = t.k + 1]
                             ELSE [done EXCEPT !.pc = "final"]]
    /\ UNCHANGED <<fpc, fin>>
    /\ UNCHANGED <<cvars, dvars>>

\* _ = waitForPodsAndContainers(ctx, ...) for the pod only
InjectFinalWait(i) ==
    /\ fout.tasks[i].pc = "final"
    /\ \E pods \in PodsFound(fout.cancelled, [Container |-> ""]) :
         fout' = [fout EXCEPT !.tasks[i].pc = "remove"]
    /\ UNCHANGED <<fpc, fin>>
    /\ UNCHANGED <<cvars, dvars>>

\* _ = os.RemoveAll(source) and return
InjectCleanup(i) ==
    /\ fout.tasks[i].pc = "remove"
    /\ fout' = [TaskReturn(i) EXCEPT !.tasks[i].removed = TRUE,
                                 !.files = fout.files \ {fout.tasks[i].source}]
    /\ UNCHANGED <<fpc, fin>>
    /\ UNCHANGED <<cvars, dvars>>

\* the steps of the task of injection i
HandleDataInjection(i) ==
    /\ i <= Len(fout.tasks)
    /\ \/ InjectWriteMarker(i)
       \/ InjectCheckTar(i)
       \/ InjectFindSource(i)
       \/ InjectWaitForPods(i)
       \/ InjectMkdir(i)
       \/ InjectCopyData(i)
       \/ InjectCopyMarker(i)
       \/ InjectFinalWait(i)
       \/ InjectCleanup(i)

\* the caller cancels the context it gave to the tasks
InjectCancel ==
    /\ fpc = "wait"
    /\ ~fout.cancelled
    /\ fout' = [fout EXCEPT !.cancelled = TRUE]
    /\ UNCHANGED <<fpc, fin>>
    /\ UNCHANGED <<cvars, dvars>>

-----------------------------------------------------------------------------
(* ValidatePackageSignature (src/pkg/packager/publish.go)                  *)

ErrPkgKeyButNoSig == "a key was provided but the package is not signed"

ErrPkgSigButNoKey == "package is signed but no key was provided"

\* what utils.CosignVerifyBlob answers for zarf.yaml, the signature and the
\* key: nil or the reason it gives
CosignAnswers == {"nil", "invalid signature", "cannot load the key"}

\* the files a package directory may hold
PackageDirectories == SUBSET {"zarf.yaml", "zarf.yaml.sig", "checksums.txt"}

\* !utils.InvalidPath(filepath.Join(directory, config.ZarfYAMLSignature))
SigExist(directory) == "zarf.yaml.sig" \in directory

\* the signature is checked though the insecure option is set
ValidatePackageSignatureThoughInsecure(insecure, directory, publicKeyPath, cosign) ==
    IF ~SigExist(directory) /\ publicKeyPath = "" THEN "nil"
    ELSE IF SigExist(directory) /\ publicKeyPath = "" THEN ErrPkgSigButNoKey
    ELSE IF ~SigExist(directory) /\ publicKeyPath # "" THEN ErrPkgKeyButNoSig
    ELSE IF cosign # "nil"
         THEN <<"package signature did not match the provided key", cosign>>
         ELSE "nil"

\* the error ValidatePackageSignature returns; cosign is the answer
\* CosignVerifyBlob gives when it is asked
ValidatePackageSignature(insecure, directory, publicKeyPath, cosign) ==
    IF insecure THEN "nil"
    ELSE IF ~SigExist(directory) /\ publicKeyPath = "" THEN "nil"
    ELSE IF SigExist(directory) /\ publicKeyPath = "" THEN ErrPkgSigButNoKey
    ELSE IF ~SigExist(directory) /\ publicKeyPath # "" THEN ErrPkgKeyButNoSig
    ELSE IF cosign # "nil"
         THEN <<"package signature did not match the provided key", cosign>>
         ELSE "nil"

\* one call
ValidateSignature ==
    /\ fpc = "in"
    /\ fpc' = "out"
    /\ fout' = [err |-> ValidatePackageSignature(fin.insecure, fin.directory,
                                                 fin.publicKeyPath, fin.cosign)]
    /\ UNCHANGED fin
    /\ UNCHANGED <<cvars, dvars>>

-----------------------------------------------------------------------------
(* ImageConfig.PushToZarfRegistry and pushImageReference (part_015)        *)

MaxImages == 2

\* the references one image is pushed under: with the checksum unless
\* NoChecksum, and without it
References(noChecksum) == IF noChecksum THEN <<"plain">> ELSE <<"crc", "plain">>

\* the goroutine of one pushImageReference: it runs crane.Push ("pushing"),
\* then sends its result on craneErrChan ("sending"), then is over ("done")
Goroutine(pc, result) == [pc |-> pc, result |-> result]

\* return of PushToZarfRegistry
PushReturn(error) == [fout EXCEPT !.pc = "returned", !.err = error]

\* craneErrChan has no buffer: a receive takes what a goroutine is sending
Receivable(g) == g.pc = "sending"

\* cluster.NewCluster and ConnectToZarfRegistryEndpoint
PushConnect ==
    /\ fpc = "push"
    /\ fout.pc = "connect"
    /\ \/ fout' = [fout EXCEPT !.pc = "loop", !.tunnel = FALSE]
       \/ fout' = [fout EXCEPT !.pc = "loop", !.tunnel = TRUE]
       \/ fout' = PushReturn("connect")
    /\ UNCHANGED <<fpc, fin>>
    /\ UNCHANGED <<cvars, dvars>>

\* the loop over the images: the next reference is transformed and
\* pushImageReference starts its goroutine, or the loop is over
PushNext ==
    /\ fpc = "push"
    /\ fout.pc = "loop"
    /\ IF fout.image > fin.images
       THEN fout' = PushReturn("nil")
       ELSE \/ fout' = PushReturn("transform")
            \/ fout' = [fout EXCEPT !.pc = "select",
                          !.goroutines = Append(fout.goroutines,
                                                Goroutine("pushing", "nil"))]
    /\ UNCHANGED <<fpc, fin>>
    /\ UNCHANGED <<cvars, dvars>>

\* crane.Push in goroutine k returns, and the goroutine is at its send
CranePush(k) ==
    /\ fpc = "push"
    /\ k <= Len(fout.goroutines)
    /\ fout.goroutines[k].pc = "pushing"
    /\ \E result \in {"nil", "crane"} :
         fout' = [fout EXCEPT !.goroutines[k] = Goroutine("sending", result)]
    /\ UNCHANGED <<fpc, fin>>
    /\ UNCHANGED <<cvars, dvars>>

\* err = <-craneErrChan, in the select or after it: the goroutine of this
\* call is over, and the loop goes on when it sent nil
PushReceiveCrane ==
    /\ fpc = "push"
    /\ fout.pc = "select"
    /\ \E k \in { Len(fout.goroutines) } :
         /\ Receivable(fout.goroutines[k])
         /\ \E done \in { [fout EXCEPT !.goroutines[k].pc = "done"] } :
              IF fout.goroutines[k].result # "nil"
              THEN fout' = [done EXCEPT !.pc = "returned",
                                        !.err = fout.goroutines[k].result]
              ELSE IF fout.reference < Len(References(fin.noChecksum))
                   THEN fout' = [done EXCEPT !.pc = "loop",
                                             !.reference = fout.reference + 1]
                   ELSE fout' = [done EXCEPT !.pc = "loop", !.reference = 1,
                                             !.image = fout.image + 1]
    /\ UNCHANGED <<fpc, fin>>
    /\ UNCHANGED <<cvars, dvars>>

\* err = <-tunnel.ErrChan(): pushImageReference returns the tunnel's error
\* and PushToZarfRegistry returns it
PushReceiveTunnel ==
    /\ fpc = "push"
    /\ fout.pc = "select"
    /\ fout.tunnel
    /\ fout.tunnelErr
    /\ fout' = [PushReturn("tunnel") EXCEPT !.tunnelErr = FALSE]
    /\ UNCHANGED <<fpc, fin>>
    /\ UNCHANGED <<cvars, dvars>>

\* the tunnel has an error to report, while it is open
TunnelError ==
    /\ fpc = "push"
    /\ fout.tunnel
    /\ fout.pc \in {"loop", "select"}
    /\ ~fout.tunnelErr
    /\ fout' = [fout EXCEPT !.tunnelErr = TRUE]
    /\ UNCHANGED <<fpc, fin>>
    /\ UNCHANGED <<cvars, dvars>>

-----------------------------------------------------------------------------
(* Client.ReplaceSecret, step by step (src/pkg/k8s/secrets.go)             *)

\* the calls of ReplaceSecret on one namespace and name that run together
Callers == {1, 2}

\* what is stored under the name: nothing, or one of these secrets
Absent == "absent"

StoredSecrets == {"old", "new1", "new2"}

\* a call before its first step; before is what was stored when it began and
\* after what was stored when it returned
NewCall(secret) ==
    [pc |-> "namespace", secret |-> secret, err |-> "nil", before |-> Absent,
     after |-> Absent]

\* return of call p with the error err
ReplaceReturn(p, error) ==
    [fout EXCEPT !.calls[p].pc = "returned", !.calls[p].err = error,
                 !.calls[p].after = fout.store]

\* k.CreateNamespace(secret.Namespace, nil): the namespace is there
\* afterwards, or the call fails
ReplaceCreateNamespace(p) ==
    /\ fpc = "replace"
    /\ p <= fin.callers
    /\ fout.calls[p].pc = "namespace"
    /\ \E began \in { [fout EXCEPT !.calls[p].before = fout.store] } :
         \/ fout' = [began EXCEPT !.calls[p].pc = "delete", !.namespace = TRUE]
         \/ fout' = [began EXCEPT !.calls[p].pc = "returned",
                       !.calls[p].err = "unable to create or read the namespace",
                       !.calls[p].after = fout.store]
    /\ UNCHANGED <<fpc, fin>>
    /\ UNCHANGED <<cvars, dvars>>

\* k.DeleteSecret(secret): the secret is deleted or was not found, or the
\* call fails with another error and ReplaceSecret returns it
ReplaceDeleteSecret(p) ==
    /\ fpc = "replace"
    /\ p <= fin.callers
    /\ fout.calls[p].pc = "delete"
    /\ \/ fout' = [fout EXCEPT !.calls[p].pc = "create", !.store = Absent]
       \/ fout' = ReplaceReturn(p, "error deleting the secret")
    /\ UNCHANGED <<fpc, fin>>
    /\ UNCHANGED <<cvars, dvars>>

\* k.CreateSecret(secret): Create stores the secret when none is stored
\* under the name, and fails when one is or for another reason
ReplaceCreateSecret(p) ==
    /\ fpc = "replace"
    /\ p <= fin.callers
    /\ fout.calls[p].pc = "create"
    /\ \/ /\ fout.store = Absent
          /\ fout' = [fout EXCEPT !.calls[p].pc = "returned",
                        !.store = fout.calls[p].secret,
                        !.calls[p].after = fout.calls[p].secret]
       \/ fout' = ReplaceReturn(p, "unable to create the secret")
    /\ UNCHANGED <<fpc, fin>>
    /\ UNCHANGED <<cvars, dvars>>

---------------------------------------------------------------------------
(* Initial states and specifications *)

CInit ==
    /\ cpc = "start"
    /\ arch \in {"", "amd64"}
    /\ flavor \in {"f"}
    /\ head \in [comp : CompPool, index : 0..(MaxComponents - 1)]
    /\ chain = <<>>
    /\ node = 0
    /\ history = <<>>
    /\ err = NoErr
    /\ merged = <<>>

CIdle ==
    /\ cpc = "idle"
    /\ arch = ""
    /\ flavor = ""
    /\ head = <<>>
    /\ chain = <<>>
    /\ node = 0
    /\ history = <<>>
    /\ err = NoErr
    /\ merged = <<>>

FInit ==
    /\ fpc = "in"
    /\ fin \in [components : ComponentLists, name : {"a", "b"},
                arch : {"amd64", "arm64"}, flavor : {"f", "g"}]
    /\ fout = <<>>

FIdle ==
    /\ fpc = "idle"
    /\ fin = <<>>
    /\ fout = <<>>

DIdle ==
    /\ dpc = "idle"
    /\ cfg = <<>>
    /\ comp = 0
    /\ steps = <<>>
    /\ retry = 0
    /\ pushed = <<>>
    /\ ready = FALSE
    /\ cluster = <<>>
    /\ state = <<>>
    /\ events = <<>>

Init == CInit /\ FIdle /\ DIdle

Next == NewImportChainStart \/ ImportStep \/ Merge

Spec == Init /\ [][Next]_vars

\* NewImportChain runs to its return
FairSpec == Init /\ [][Next]_vars /\ WF_vars(Next)

DInit ==
    /\ dpc = "next"
    /\ cfg \in { [init |-> p.init, components |-> p.components,
                  externalRegistry |-> x, applianceMode |-> a, clusterArch |-> ca] :
                    p \in Packages, x \in BOOLEAN, a \in BOOLEAN,
                    ca \in {"amd64", "arm64"} }
    /\ comp = 0
    /\ steps = <<>>
    /\ retry = 0
    /\ pushed = [images |-> "none", repos |-> "none", everFailed |-> FALSE]
    /\ ready = FALSE
    /\ cluster \in { [state |-> st, pod |-> FALSE, configmaps |-> FALSE,
                      service |-> FALSE, k3sImage |-> FALSE, registrySeed |-> FALSE] :
                        st \in {ZeroState} \cup ExistingStates }
    /\ state = ZeroState
    /\ events = <<>>

DeployInit == CIdle /\ FIdle /\ DInit

DeployNextStep ==
    \/ DeployNext
    \/ PreSeedLoad
    \/ PreSeedInject
    \/ PreSeedSave
    \/ SeedZarfState
    \/ ComponentBegin
    \/ RunBeforeScripts
    \/ ProcessComponentFiles
    \/ SomeSortOfValidation
    \/ PushImagesToRegistry
    \/ PushReposToRepository
    \/ PerformDataInjections
    \/ InstallCharts
    \/ InstallManifests
    \/ RunAfterScripts
    \/ PostSeedCleanup
    \/ PostSeedPush

DeploySpec == DeployInit /\ [][DeployNextStep]_vars

FindInit == CIdle /\ FInit /\ DIdle

FindNext == Find

FindSpec == FindInit /\ [][FindNext]_vars

TransformInit ==
    /\ CIdle /\ DIdle
    /\ fpc = "in"
    /\ fin \in [target : TargetHosts, ref : ImageRefs]
    /\ fout = <<>>

TransformNext == Transform

TransformSpec == TransformInit /\ [][TransformNext]_vars

AgentInit ==
    /\ CIdle /\ DIdle
    /\ fpc = "in"
    /\ fin \in [operation : {"CREATE", "UPDATE"}, address : RegistryAddresses, pod : Pods]
    /\ fout = <<>>

AgentNext == Admit

AgentSpec == AgentInit /\ [][AgentNext]_vars

ArchiveInit ==
    /\ CIdle /\ DIdle
    /\ fpc = "in"
    /\ fin \in [size : ArchiveSizes, maxPackageSizeMB : MaxPackageSizes]
    /\ fout = [archive |-> FALSE, parts |-> <<>>, pending |-> <<>>, err |-> ""]

ArchiveNext == ArchiveCreate \/ ArchiveSplit \/ ArchiveWritePart

ArchiveSpec == ArchiveInit /\ [][ArchiveNext]_vars

ChecksumInit ==
    /\ CIdle /\ DIdle
    /\ fpc = "in"
    /\ fin \in [pp : Layouts,
                missing : { {}, {FilepathJoin(ImagesDir, IndexJSON)}, {SBOMTar} }]
    /\ fout = [rest |-> DOMAIN Files(fin.pp), checksumsData |-> <<>>,
               written |-> FALSE, file |-> <<>>, sum |-> <<>>, err |-> ""]

ChecksumNext == ChecksumFile \/ ChecksumWrite

ChecksumSpec == ChecksumInit /\ [][ChecksumNext]_vars

RemoveInit ==
    /\ CIdle /\ DIdle
    /\ fpc = "in"
    /\ fin \in [deployed : SUBSET DeployedNames, components : RequestedLists]
    /\ fout = [secret |-> PackageSecret(fin.deployed), deployedComponents |-> {},
               todo |-> {}, charts |-> fin.deployed, err |-> ""]

RemoveNext == RemoveGetSecret \/ RemoveRequested \/ RemoveAllCharts \/ RemoveAllSecret

RemoveSpec == RemoveInit /\ [][RemoveNext]_vars

PublishInit ==
    /\ CIdle /\ DIdle
    /\ fpc = "in"
    /\ fin \in [paths : 0..MaxLayers]
    /\ fout = [descs |-> 0, root |-> "", copied |-> 0,
               copyRootAttempted |-> FALSE, err |-> "", log |-> <<>>]

PublishNext == PublishPack \/ PublishCopy \/ PublishFallback \/ PublishCopyImage

PublishSpec == PublishInit /\ [][PublishNext]_vars

CreateInit ==
    /\ CIdle /\ DIdle
    /\ fpc = "in"
    /\ fin \in [baseDir : {"", "pkg"}, confirm : {"--confirm", "yes", "no"},
                warnings : 0..1]
    /\ fout = [calls |-> <<>>, dir |-> "cwd", warnings |-> 0, err |-> ""]

CreateNext ==
    \/ CreateCdToBaseDir \/ CreateLoad \/ CreateValidate
    \/ CreateConfirm \/ CreateAssemble \/ CreateOutput

CreateSpec == CreateInit /\ [][CreateNext]_vars

ValidateInit ==
    /\ CIdle /\ DIdle
    /\ fpc = "in"
    /\ fin \in ActionSets
    /\ fout = [err |-> <<>>]

ValidateNext == ValidateActionSet

ValidateSpec == ValidateInit /\ [][ValidateNext]_vars

PackageValidateInit ==
    /\ CIdle /\ DIdle
    /\ fpc = "in"
    /\ fin \in [Kind : {"ZarfInitConfig", "ZarfPackageConfig"}, YOLO : BOOLEAN,
                Components : SeqsUpTo(ValidatedComponents, MaxComponents)]
    /\ fout = [err |-> <<>>]

PackageValidateNext == ValidatePackage

PackageValidateSpec == PackageValidateInit /\ [][PackageValidateNext]_vars

WaitInit ==
    /\ CIdle /\ DIdle
    /\ fpc = "select"
    /\ fin \in [target : Lookups, include : {"nil", "marker"}]
    /\ fout = [elapsed |-> 0, cancelled |-> FALSE, listErr |-> FALSE,
               pods |-> {}, result |-> <<>>]

WaitNext ==
    \/ WaitSelectDone
    \/ WaitSelectTimer
    \/ WaitCancel

WaitSpec == WaitInit /\ [][WaitNext]_vars

InjectInit ==
    /\ CIdle /\ DIdle
    /\ fpc = "start"
    /\ fin \in { [injections |-> injections, files |-> files] :
                   <<injections, files>> \in
                     UNION { { <<d, f>> : f \in PackagedFiles(d) } :
                               d \in SeqsUpTo(DataInjections, MaxInjections) \ { <<>> } } }
    /\ fout = [tasks |-> <<>>, files |-> fin.files, cancelled |-> FALSE, wg |-> 0]

InjectNext ==
    \/ PerformDataInjectionsStart
    \/ \E i \in 1..MaxInjections : HandleDataInjection(i)
    \/ PerformDataInjectionsWait
    \/ InjectCancel

InjectSpec == InjectInit /\ [][InjectNext]_vars

\* every started task is scheduled again and again, and so is the deployer
FairInjectSpec ==
    /\ InjectInit /\ [][InjectNext]_vars
    /\ \A i \in 1..MaxInjections : WF_vars(HandleDataInjection(i))
    /\ WF_vars(PerformDataInjectionsStart)
    /\ WF_vars(PerformDataInjectionsWait)

SignatureInit ==
    /\ CIdle /\ DIdle
    /\ fpc = "in"
    /\ fin \in [insecure : BOOLEAN, directory : PackageDirectories,
                publicKeyPath : {"", "cosign.pub", "other.pub"},
                cosign : CosignAnswers]
    /\ fout = [err |-> "nil"]

SignatureNext == ValidateSignature

SignatureSpec == SignatureInit /\ [][SignatureNext]_vars

PushImageInit ==
    /\ CIdle /\ DIdle
    /\ fpc = "push"
    /\ fin \in [images : 1..MaxImages, noChecksum : BOOLEAN]
    /\ fout = [pc |-> "connect", tunnel |-> FALSE, tunnelErr |-> FALSE,
               image |-> 1, reference |-> 1, goroutines |-> <<>>, err |-> "nil"]

PushImageNext ==
    \/ PushConnect
    \/ PushNext
    \/ \E k \in 1..(2 * MaxImages) : CranePush(k)
    \/ PushReceiveCrane
    \/ PushReceiveTunnel
    \/ TunnelError

PushImageSpec == PushImageInit /\ [][PushImageNext]_vars

\* every goroutine and the pushing function are scheduled again and again
FairPushImageSpec ==
    /\ PushImageInit /\ [][PushImageNext]_vars
    /\ \A k \in 1..(2 * MaxImages) : WF_vars(CranePush(k))
    /\ WF_vars(PushConnect)
    /\ WF_vars(PushNext)
    /\ WF_vars(PushReceiveCrane \/ PushReceiveTunnel)

ReplaceInit ==
    /\ CIdle /\ DIdle
    /\ fpc = "replace"
    /\ fin \in [callers : Callers, store : {Absent, "old"}, namespace : BOOLEAN]
    /\ fout = [store |-> fin.store, namespace |-> fin.namespace \/ fin.store # Absent,
               calls |-> [p \in Callers |->
                            NewCall(IF p = 1 THEN "new1" ELSE "new2")]]

ReplaceNext ==
    \/ \E p \in Callers : ReplaceCreateNamespace(p)
    \/ \E p \in Callers : ReplaceDeleteSecret(p)
    \/ \E p \in Callers : ReplaceCreateSecret(p)

ReplaceSpec == ReplaceInit /\ [][ReplaceNext]_vars

---------------------------------------------------------------------------
(* Properties of the composer *)

Range(q) == { q[i] : i \in 1..Len(q) }

HasImport(c) == c.import.path # <<>> \/ c.import.url # ""

Returned == cpc \in {"done", "merged"}

\* a node reached through import.path never sits in a directory an earlier
\* node of the chain already holds
NoRepeatedDirectory ==
    \A j \in 2..Len(chain) :
        chain[j - 1].comp.import.path # <<>> =>
            \A i \in 1..(j - 1) : chain[i].relativeToHead # chain[j].relativeToHead

\* when the imports followed so far lead into a directory held by a node that
\* was in the chain before the last import was followed, the call has
\* returned the circular-import error
RepeatIsRejected ==
    (/\ Len(history) >= 1
     /\ \E i \in 1..Len(history) :
            i <= Len(chain) /\ chain[i].relativeToHead = Join(history))
        => Returned /\ err.kind = "circular"

\* C1: over a finite set of manifests NewImportChain returns; it returns the
\* circular-import error whenever the imports lead back into a directory
\* a node of the chain already holds (the head's "." included), and no
\* chain ever holds a locally imported node in the directory of an earlier node.
ImportChainAcyclic ==
    [](NoRepeatedDirectory /\ RepeatIsRejected) /\ <>Returned

\* a circular import that comes back to a node other than the head
ImportChainAcyclicWitness ==
    /\ cpc = "done"
    /\ err.kind = "circular"
    /\ Len(chain) >= 2
    /\ Join(history) = chain[2].relativeToHead

\* C2 as stated: the error lists the relative-to-head path of every node
\* walked, from the head's "." to the repeated node.
CircularErrorListsWalk ==
    err.kind = "circular" =>
        err.list = [i \in 1..Len(chain) |-> chain[i].relativeToHead]
                       \o << Join(history) >>

\* C2 as amended: the error lists the import paths as written, one per node
\* of the chain from the head to the tail, in order; following all of
\* them leads into a directory that a node of the chain holds.
CircularErrorListsImports ==
    err.kind = "circular" =>
        /\ Len(err.list) = Len(chain)
        /\ \A k \in 1..Len(chain) : err.list[k] = chain[k].comp.import.path
        /\ \E i \in 1..Len(chain) : chain[i].relativeToHead = Join(err.list)

\* a circular import of two steps that comes back to the head
CircularErrorListsImportsWitness ==
    /\ err.kind = "circular"
    /\ Len(err.list) = 2
    /\ Join(err.list) = <<".">>

\* C3: a node reached through import.url is the tail of the chain, and
\* when it declares an import of its own the call returns an error and
\* appends nothing after it.
RemoteNodeIsTail ==
    \A j \in 2..Len(chain) :
        chain[j - 1].comp.import.url # "" =>
            /\ j = Len(chain)
            /\ (HasImport(chain[j].comp) /\ Returned) => err.kind # "none"

\* a remote component that imports a local path was rejected
RemoteNodeIsTailWitness ==
    /\ cpc = "done"
    /\ err.kind = "localFromRemote"
    /\ Len(chain) >= 2
    /\ chain[Len(chain) - 1].comp.import.url # ""
    /\ chain[Len(chain)].comp.import.path # <<>>

\* positions of the components of the manifest that carry the import name
\* and fit the architecture and the flavor
Candidates ==
    { i \in 1..Len(fin.components) :
        /\ fin.components[i].name = fin.name
        /\ fin.components[i].arch \in {"", fin.arch}
        /\ fin.components[i].flavor \in {"", fin.flavor} }

\* C4: the lookup succeeds exactly when one component has the import name
\* and is compatible, reports not-found for none and multiple-matches
\* for several, and gives that component with its position in the manifest.
SingleMatchingComponent ==
    fpc = "out" =>
        /\ fout.kind = "notfound" <=> Candidates = {}
        /\ fout.kind = "multiple" <=> Cardinality(Candidates) >= 2
        /\ fout.kind = "ok" <=> Cardinality(Candidates) = 1
        /\ fout.kind = "ok" =>
              /\ Candidates = { fout.index + 1 }
              /\ fout.comp = fin.components[fout.index + 1]

\* the second component is taken because the first, of the same name, is
\* for another flavor
SingleMatchingComponentWitness ==
    /\ fpc = "out"
    /\ fout.kind = "ok"
    /\ fout.index = 1
    /\ fin.components[1].name = fin.name
    /\ fin.components[1].arch \in {"", fin.arch}

Names(s) == { s[i].name : i \in 1..Len(s) }

Definition(s, n) == CHOOSE e \in { s[i] : i \in 1..Len(s) } : e.name = n

DownstreamWins(m, ex, field) ==
    LET Defining(n) == { i \in 1..Len(chain) : n \in Names(chain[i][field]) }
        Nearest(n) == CHOOSE i \in Defining(n) : \A j \in Defining(n) : i <= j
    IN /\ Names(m) = Names(ex) \cup UNION { Names(chain[i][field]) : i \in 1..Len(chain) }
       /\ Cardinality(Names(m)) = Len(m)
       /\ \A k \in 1..Len(m) :
            m[k] = IF m[k].name \in Names(ex)
                   THEN Definition(ex, m[k].name)
                   ELSE Definition(chain[Nearest(m[k].name)][field], m[k].name)

\* C5: the merged variables (and constants) hold one entry per name defined
\* by the package or by a node of the chain: the package's own definition
\* when it has one, else that of the defining node nearest the head.
MergeIsDownstreamWins ==
    cpc = "merged" =>
        /\ DownstreamWins(merged.variables, merged.existing.v, "vars")
        /\ DownstreamWins(merged.constants, merged.existing.c, "consts")

\* X is defined by two nodes with different values, Y by the package and a node
MergeIsDownstreamWinsWitness ==
    /\ cpc = "merged"
    /\ Len(chain) >= 3
    /\ chain[2].vars = << Var("X", 1) >>
    /\ chain[3].vars = << Var("Y", 2), Var("X", 2) >>
    /\ merged.existing.v # <<>>

---------------------------------------------------------------------------
(* Properties of the deployer and of the bootstrap *)

Position(order, step) == CHOOSE i \in 1..Len(order) : order[i] = step

InOrder(order) ==
    \A i, j \in 1..Len(steps) :
        (i < j /\ steps[i] \in Range(order) /\ steps[j] \in Range(order))
            => Position(order, steps[i]) < Position(order, steps[j])

CodeOrder == <<"before", "files", "images", "repos", "data", "charts", "manifests", "after">>

PushFailureSurfaces ==
    /\ \A k \in {"images", "repos"} :
          pushed[k] = "failed" => (steps # <<>> /\ steps[Len(steps)] = k)
    /\ pushed.everFailed => dpc # "complete"

Injected == \E i \in 1..Len(events) : events[i] = "inject"

\* C8: the injector runs only for an init package, only on a cluster
\* without a state secret (the state to save then carries a generated
\* secret) and only without an external registry.
InjectorOnlyOnFreshInit ==
    Injected => (cfg.init /\ state.secret = "generated" /\ ~cfg.externalRegistry)

Cleanups == {"deletePod", "deleteConfigMaps", "deleteService"}

CleanupAfterSeedPush ==
    \A i \in 1..Len(events) :
        events[i] \in Cleanups => \E j \in 1..(i - 1) : events[j] = "pushSeed"

\* C10 as amended: outside appliance mode postSeedRegistry deletes the pod,
\* the ConfigMaps and the Service and then pushes the seed image; in
\* appliance mode it deletes nothing.
CleanupBeforeSeedPush ==
    /\ \A i \in 1..Len(events) :
          events[i] = "pushSeed" =>
              IF cfg.applianceMode
              THEN \A j \in 1..Len(events) : events[j] \notin Cleanups
              ELSE /\ i >= 4
                   /\ SubSeq(events, i - 3, i - 1)
                        = <<"deletePod", "deleteConfigMaps", "deleteService">>
    /\ \A i \in 1..Len(events) :
          events[i] \in Cleanups => \A j \in 1..(i - 1) : events[j] # "pushSeed"

\* the injector resources are gone and the seed image is in the registry
CleanupBeforeSeedPushWitness ==
    /\ ~cfg.applianceMode
    /\ events # <<>>
    /\ events[Len(events)] = "pushSeed"
    /\ ~cluster.pod /\ ~cluster.configmaps /\ ~cluster.service
    /\ cluster.registrySeed

---------------------------------------------------------------------------
(* Properties of the agent and of the image transform *)

\* "127.0.0.1:31999/library/busybox:latest-zarf-2140033595"
BusyboxMirror ==
    <<49, 50, 55, 46, 48, 46, 48, 46, 49, 58, 51, 49, 57, 57, 57, 47, 108,
      105, 98, 114, 97, 114, 121, 47, 98, 117, 115, 121, 98, 111, 120, 58,
      108, 97, 116, 101, 115, 116, 45, 122, 97, 114, 102, 45, 50, 49, 52,
      48, 48, 51, 51, 53, 57, 53>>

\* "127.0.0.1:31999/library/alpine:latest-zarf-1117969859"
AlpineMirror ==
    <<49, 50, 55, 46, 48, 46, 48, 46, 49, 58, 51, 49, 57, 57, 57, 47, 108,
      105, 98, 114, 97, 114, 121, 47, 97, 108, 112, 105, 110, 101, 58, 108,
      97, 116, 101, 115, 116, 45, 122, 97, 114, 102, 45, 49, 49, 49, 55,
      57, 54, 57, 56, 53, 57>>

\* the mirror reference of a parsed image on a host:
\* <host>/<path>@<digest>, or <host>/<path>:<tag>-zarf-<crc32 of the name>
MirrorReference(host, image) ==
    IF image.Digest # <<>>
    THEN host \o <<47>> \o image.Path \o <<64>> \o image.Digest
    ELSE host \o <<47>> \o image.Path \o <<58>> \o image.Tag
           \o ZarfSuffix \o FormatDecimal(GetCRCHash(image.Name))

\* what a reference is to be rewritten to: the mirror reference, or, with
\* sameHostKept, the reference itself when the host starts with its host
Rewritten(host, ref, sameHostKept) ==
    LET image == ParseImageRef(ref) IN
    IF sameHostKept /\ HasPrefix(host, image.Host) THEN ref
    ELSE MirrorReference(host, image)

ExpectedContainerPatches(list, images, address) ==
    [i \in 1..Len(images) |->
        [op |-> "replace",
         path |-> <<"spec", list, ToString(i - 1), "image">>,
         value |-> [image |-> Rewritten(address, images[i], TRUE)]]]

ExpectedPatch(pod, address) ==
    << [op |-> "replace", path |-> <<"spec", "imagePullSecrets">>,
        value |-> [secrets |-> <<"private-registry">>]] >>
    \o ExpectedContainerPatches("initContainers", pod.initContainers, address)
    \o ExpectedContainerPatches("ephemeralContainers", pod.ephemeralContainers,
                                address)
    \o ExpectedContainerPatches("containers", pod.containers, address)
    \o << IF pod.labels = {}
          THEN [op |-> "add", path |-> <<"metadata", "labels">>,
                value |-> [labels |-> {<<"zarf-agent", "patched">>}]]
          ELSE [op |-> "replace", path |-> <<"metadata", "labels", "zarf-agent">>,
                value |-> [label |-> "patched"]] >>

Answered == fpc = "out" /\ fout.sent

\* C11: a pod that carries zarf-agent=patched is answered with an empty
\* patch, whatever images its containers reference.
PatchedPodNotMutated ==
    (Answered /\ <<"zarf-agent", "patched">> \in fin.pod.labels)
        => fout.patch = <<>>

\* a patched pod whose image is not on the registry was answered
PatchedPodNotMutatedWitness ==
    /\ Answered
    /\ <<"zarf-agent", "patched">> \in fin.pod.labels
    /\ fin.pod.containers = << RefNginx >>
    /\ fin.address = HostMirror
    /\ fout.allowed
    /\ fout.patch = <<>>

\* C12 as stated: for every CREATE of a pod without zarf-agent=patched the
\* patch is the replace of imagePullSecrets, one replace per container image
\* with its reference on the registry address, and the label.
PatchRewritesEveryImage ==
    (Answered /\ fin.operation = "CREATE"
        /\ <<"zarf-agent", "patched">> \notin fin.pod.labels)
        => fout.patch = ExpectedPatch(fin.pod, fin.address)

\* C12 as amended: for a CREATE of a pod without zarf-agent=patched whose
\* images all parse as image references, the patch is the replace of
\* imagePullSecrets, one replace per container image with its reference on
\* the registry address, and the label.
PatchRewritesParsedImages ==
    (Answered /\ fin.operation = "CREATE"
        /\ <<"zarf-agent", "patched">> \notin fin.pod.labels
        /\ \A i \in 1..Len(PodImages(fin.pod)) :
              ParseImageRef(PodImages(fin.pod)[i]).ok)
        => /\ fout.allowed
           /\ fout.patch = ExpectedPatch(fin.pod, fin.address)

\* the pod of the test: nginx, busybox as init container, alpine as
\* ephemeral container, the label should-be=mutated
PatchRewritesParsedImagesWitness ==
    /\ Answered
    /\ fin.operation = "CREATE"
    /\ fin.address = HostMirror
    /\ fin.pod = [labels |-> {<<"should-be", "mutated">>},
                  initContainers |-> << RefBusybox >>,
                  ephemeralContainers |-> << RefAlpine >>,
                  containers |-> << RefNginx >>]
    /\ fout.patch =
         << [op |-> "replace", path |-> <<"spec", "imagePullSecrets">>,
             value |-> [secrets |-> <<"private-registry">>]],
            [op |-> "replace", path |-> <<"spec", "initContainers", "0", "image">>,
             value |-> [image |-> BusyboxMirror]],
            [op |-> "replace", path |-> <<"spec", "ephemeralContainers", "0", "image">>,
             value |-> [image |-> AlpineMirror]],
            [op |-> "replace", path |-> <<"spec", "containers", "0", "image">>,
             value |-> [image |-> RefMirrored]],
            [op |-> "replace", path |-> <<"metadata", "labels", "zarf-agent">>,
             value |-> [label |-> "patched"]] >>

\* C13 as stated: every parseable reference is turned into its mirror
\* reference on the target: <target>/<path>:<tag>-zarf-<crc32 of the name>,
\* or <target>/<path>@<digest> when it has a digest.
TransformGivesMirrorReference ==
    (fpc = "out" /\ ParseImageRef(fin.ref).ok)
        => /\ fout.ok
           /\ fout.ref = Rewritten(fin.target, fin.ref, FALSE)

\* C13 as amended: a parseable reference whose host the target does not
\* start with is turned into its mirror reference; one whose host the
\* target starts with is returned as it was given.
TransformGivesMirrorUnlessSameHost ==
    (fpc = "out" /\ ParseImageRef(fin.ref).ok)
        => /\ fout.ok
           /\ fout.ref = Rewritten(fin.target, fin.ref, TRUE)

\* "nginx" was moved to 127.0.0.1:31999 and got the reference of the test
TransformGivesMirrorUnlessSameHostWitness ==
    /\ fpc = "out"
    /\ fin.ref = RefNginx
    /\ fin.target = HostMirror
    /\ fout.ref = RefMirrored

---------------------------------------------------------------------------
(* Properties of the package layout *)

\* the archive is larger than the size maxPackageSizeMB allows
LargerThanMax ==
    fin.maxPackageSizeMB > 0 /\ fin.size > fin.maxPackageSizeMB * 1000000

\* data chunks a split of the archive gives
ChunksOfSplit ==
    (fin.size + fin.maxPackageSizeMB * 1000000 - 1)
        \div (fin.maxPackageSizeMB * 1000000)

\* C14: the archive stays one file when maxPackageSizeMB <= 0 or the archive
\* is not larger than maxPackageSizeMB * 1,000,000 bytes; it is split when
\* it is larger; a split into more than 999 data chunks is an error that
\* writes no part file.
ArchiveSplitBySize ==
    /\ fout.parts # <<>> => (LargerThanMax /\ ChunksOfSplit <= 999)
    /\ (fpc = "out" /\ fout.err = "") =>
           IF LargerThanMax
           THEN ~fout.archive /\ Len(fout.parts) = ChunksOfSplit + 1
           ELSE fout.archive /\ fout.parts = <<>>
    /\ (fpc = "out" /\ fout.archive /\ LargerThanMax /\ ChunksOfSplit > 999) =>
           fout.err # "" /\ fout.parts = <<>>

\* an archive of 999,000,001 bytes with maxPackageSizeMB = 1 was refused
ArchiveSplitBySizeWitness ==
    /\ fpc = "out"
    /\ fin.size = 999000001
    /\ fin.maxPackageSizeMB = 1
    /\ fout.err = "chunks"
    /\ fout.archive
    /\ fout.parts = <<>>

RECURSIVE ChecksumLines(_)
ChecksumLines(content) ==
    IF content = <<>> THEN <<>>
    ELSE LET n == IndexRune(content, 10)
             line == IF n = 0 THEN content ELSE SubSeq(content, 1, n - 1)
             rest == IF n = 0 THEN <<>> ELSE SubSeq(content, n + 1, Len(content))
         IN (IF line = <<>> THEN <<>> ELSE <<line>>) \o ChecksumLines(rest)

\* the files of the layout the checksums cover, by their paths relative to
\* the base: the signature, the image layout files and blobs, the component
\* tarballs and sboms.tar
CoveredFiles ==
    LET pp == fin.pp
        under == { pp.Signature, pp.Images.OCILayout, pp.Images.Index }
                 \cup { pp.Images.Blobs[i] : i \in 1..Len(pp.Images.Blobs) }
                 \cup { pp.Components.Tarballs[n] : n \in DOMAIN pp.Components.Tarballs }
                 \cup (IF pp.SBOMs.Path = FilepathJoin(pp.Base, SBOMTar)
                       THEN { pp.SBOMs.Path } ELSE {})
    IN { SubSeq(p, Len(pp.Base) + 2, Len(p)) : p \in under \ { <<>> } }

\* C16: the checksums file holds exactly one line "<sha256> <relative path>"
\* for every file of the layout but zarf.yaml and checksums.txt, no line for
\* these two, its lines ascending, and the value returned is the SHA256 of
\* the checksums file.
ChecksumsTotal ==
    (fpc = "out" /\ fout.written) =>
        LET lines == ChecksumLines(fout.file) IN
        /\ \A rel \in CoveredFiles :
              Cardinality({ i \in 1..Len(lines) :
                  lines[i] = Sha256Hex(ContentOf(rel)) \o <<32>> \o rel }) = 1
        /\ Len(lines) = Cardinality(CoveredFiles)
        /\ \A i \in 1..Len(lines) :
              LET rel == SubSeq(lines[i], IndexRune(lines[i], 32) + 1, Len(lines[i]))
              IN rel # ZarfYAML /\ rel # Checksums
        /\ \A i \in 1..(Len(lines) - 1) : Less(lines[i], lines[i + 1])
        /\ fout.err = "" => fout.sum = Sha256Hex(fout.file)

\* checksums of a signed layout with two equal blobs, a component tarball
\* and sboms.tar written from lines gathered out of order
ChecksumsTotalWitness ==
    /\ fpc = "out"
    /\ fout.written
    /\ fout.err = ""
    /\ fin.pp.Signature # <<>>
    /\ Len(fin.pp.Images.Blobs) = 2
    /\ fin.pp.SBOMs.Path = FilepathJoin(LayoutBase, SBOMTar)
    /\ Len(ChecksumLines(fout.file)) = 6
    /\ \E i \in 1..(Len(fout.checksumsData) - 1) :
          Less(fout.checksumsData[i + 1], fout.checksumsData[i])
    /\ fout.sum = [sha256 |-> fout.file]

---------------------------------------------------------------------------
(* Properties of the removal of a package *)

\* the deployed components that were not requested for removal: none when no
\* list of components was given
NotRequested ==
    IF fin.components = <<>> THEN {}
    ELSE { c \in fin.deployed :
             \A i \in 1..Len(Split(fin.components, 44)) :
                 Split(fin.components, 44)[i] # c }

\* C17: after a Remove the secret of the deployed package is gone when no
\* deployed component remains, and otherwise exists and lists exactly the
\* deployed components that were not requested for removal.
SecretFollowsDeployedComponents ==
    (fpc = "out" /\ fout.err = "") =>
        IF NotRequested = {}
        THEN ~fout.secret.exists
        ELSE fout.secret = PackageSecret(NotRequested)

---------------------------------------------------------------------------
(* Properties of the publication of a package *)

\* the registry saw this push
Logged(what, result) ==
    \E i \in 1..Len(fout.log) : fout.log[i] = Pushed(what, result)

\* the fallback was attempted: the config or an image manifest was pushed
FallbackAttempted ==
    \E i \in 1..Len(fout.log) : fout.log[i].what \in { "config", "image" }

\* C18: a successful push of the artifact manifest is the last push and
\* publish succeeds; the config and the image manifest are pushed only after
\* the push of the artifact manifest itself failed with a
\* manifest-unsupported error, the image manifest after the config; a failure
\* of a layer, or any other error of the artifact manifest, is returned with
\* no further push.
FallbackOnlyWhenManifestUnsupported ==
    /\ FallbackAttempted => Logged("artifact", "unsupported")
    /\ \A i \in 1..Len(fout.log) :
          fout.log[i].what = "image" =>
              i > 1 /\ fout.log[i - 1] = Pushed("config", "ok")
    /\ fpc = "out" =>
          /\ \A result \in { "exists", "ok" } :
                Logged("artifact", result) =>
                    fout.err = "" /\ fout.log[Len(fout.log)] = Pushed("artifact", result)
          /\ \A result \in { "unsupported", "other" } :
                Logged("layer", result) =>
                    fout.err = result /\ fout.log[Len(fout.log)] = Pushed("layer", result)
          /\ Logged("artifact", "other") =>
                fout.err = "other" /\ fout.log[Len(fout.log)] = Pushed("artifact", "other")

\* a package of two layers published as an image manifest after the registry
\* refused the artifact manifest
FallbackOnlyWhenManifestUnsupportedWitness ==
    /\ fpc = "out"
    /\ fout.err = ""
    /\ fin.paths = 2
    /\ fout.log = << Pushed("layer", "ok"), Pushed("layer", "ok"),
                     Pushed("artifact", "unsupported"), Pushed("config", "ok"),
                     Pushed("image", "ok") >>

---------------------------------------------------------------------------
(* Properties of the creation of a package *)

\* Create made this call before its i-th call
CalledBefore(i, call, ok) ==
    \E j \in 1..(i - 1) : fout.calls[j] = Called(call, ok)

---------------------------------------------------------------------------
(* Properties of the validation *)

\* the action has exactly one shape: a command or a wait, and a wait for
\* the cluster or for the network
ExactlyOneShape(action) ==
    /\ (action.Cmd # "") # action.Wait.set
    /\ action.Wait.set => (action.Wait.Cluster # action.Wait.Network)

\* C20: an action set is accepted only if each of its actions has exactly
\* one of cmd and wait, and each wait exactly one of cluster and network.
AcceptedActionsHaveOneShape ==
    (fpc = "out" /\ fout.err = <<>>) =>
        \A actions \in { fin.Before, fin.After, fin.OnFailure, fin.OnSuccess } :
            \A i \in 1..Len(actions) : ExactlyOneShape(actions[i])

\* the errors Validate raises for YOLO
YOLOGrounds ==
    { "PkgValidateErrInitNoYOLO", "PkgValidateErrYOLONoOCI", "PkgValidateErrYOLONoGit",
      "PkgValidateErrYOLONoArch", "PkgValidateErrYOLONoDistro" }

\* the error returned holds this error
Raised(e) == \E i \in 1..Len(fout.err) : fout.err[i] = e

\* a component declares this
Declared(P) == \E i \in 1..Len(fin.Components) : fin.Components[i] \in P

\* C21: an init package with YOLO is rejected, a YOLO package with a
\* component that declares images, repos, a cluster architecture or distros is
\* rejected, and a YOLO package with none of these is not rejected for YOLO.
YOLORejections ==
    fpc = "out" =>
        /\ (fin.YOLO /\ fin.Kind = "ZarfInitConfig") <=> Raised("PkgValidateErrInitNoYOLO")
        /\ (fin.YOLO /\ Declared({ c \in ValidatedComponents : c.Images > 0 }))
              <=> Raised("PkgValidateErrYOLONoOCI")
        /\ (fin.YOLO /\ Declared({ c \in ValidatedComponents : c.Repos > 0 }))
              <=> Raised("PkgValidateErrYOLONoGit")
        /\ (fin.YOLO /\ Declared({ c \in ValidatedComponents : c.Architecture # "" }))
              <=> Raised("PkgValidateErrYOLONoArch")
        /\ (fin.YOLO /\ Declared({ c \in ValidatedComponents : c.Distros > 0 }))
              <=> Raised("PkgValidateErrYOLONoDistro")

\* a YOLO package whose second component pins distros rejected for that alone
YOLORejectionsWitness ==
    /\ fpc = "out"
    /\ fin.YOLO
    /\ fin.Kind = "ZarfPackageConfig"
    /\ Len(fin.Components) = 2
    /\ fin.Components[1] = PlainComponent("a")
    /\ fin.Components[2] = [PlainComponent("b") EXCEPT !.Distros = 1]
    /\ fout.err = << "PkgValidateErrYOLONoDistro" >>

-----------------------------------------------------------------------------
(* Properties of the pod wait *)

\* a pod that is ready for the lookup of the call
ReadyFor(pod) ==
    \/ fin.target.Container # "" /\ pod.status \in {"InitRunning", "ContainerRunning"}
    \/ fin.target.Container = "" /\ pod.status \in {"Running", "ContainerRunning"}

\* the pods of the last listing that match the selector and pass the filter
CandidatePods ==
    { pod \in fout.pods : pod.selected /\ (fin.include = "nil" \/ pod.marked) }

\* C26: waitForPodsAndContainers returns a non-empty list only of pods that
\* match the selector, pass the include filter and are ready, newest first;
\* with no container targeted it returns one pod, the newest running one; it
\* returns an empty list when the 90 seconds are over, the context is done
\* or the listing fails, and for no other reason: it polls again while no
\* pod is ready.
WaitReturnsReadyPods ==
    /\ fpc = "returned" /\ fout.result # <<>> =>
         /\ \A i \in 1..Len(fout.result) :
               fout.result[i] \in CandidatePods /\ ReadyFor(fout.result[i])
         /\ \A i, j \in 1..Len(fout.result) :
               i < j => fout.result[i].created >= fout.result[j].created
         /\ fin.target.Container = "" =>
               /\ Len(fout.result) = 1
               /\ \A pod \in CandidatePods :
                     ReadyFor(pod) => pod.created <= fout.result[1].created
    /\ fpc = "returned" /\ fout.result = <<>> =>
         fout.elapsed >= WaitTimeout \/ fout.cancelled \/ fout.listErr
    /\ fpc = "returned"
         /\ (fout.elapsed >= WaitTimeout \/ fout.cancelled \/ fout.listErr) =>
         fout.result = <<>>
    /\ fpc = "select" => fout.result = <<>> /\ fout.elapsed % PollInterval = 0

\* two running pods of different ages, found after the first listing found
\* nothing ready: the newer one is returned
WaitReturnsReadyPodsWitness ==
    /\ fpc = "returned"
    /\ fin.target.Container = ""
    /\ fout.elapsed > 0
    /\ Cardinality(CandidatePods) = 2
    /\ \A pod \in CandidatePods : pod.status = "Running"
    /\ \E pod \in CandidatePods : pod.created = 1
    /\ Len(fout.result) = 1
    /\ fout.result[1].created = 2

-----------------------------------------------------------------------------
(* Properties of the data injections *)

\* the paths the next step of task i touches, and how: two tasks that are
\* both before such a step take the two steps in either order, or at once
Accesses(i) ==
    CASE fout.tasks[i].pc = "marker" -> { <<InjectionCompletionMarker, "write">> }
      [] fout.tasks[i].pc = "source" ->
           { <<SourcePath(fin.injections[i]), "read">>,
             <<IndexedSourcePath(fin.injections[i], i - 1), "read">> }
      [] fout.tasks[i].pc = "copy" -> { <<fout.tasks[i].source, "read">> }
      [] fout.tasks[i].pc = "copymarker" -> { <<InjectionCompletionMarker, "read">> }
      [] fout.tasks[i].pc = "remove" -> { <<fout.tasks[i].source, "write">> }
      [] OTHER -> {}

\* C22: the tasks of one component share only read-only paths: no path is
\* written or removed by one task while another task writes, reads or
\* removes it.
TasksShareOnlyReadOnlyPaths ==
    \A i, j \in 1..Len(fout.tasks) :
        i # j =>
          \A a \in Accesses(i), b \in Accesses(j) :
              a[1] = b[1] => a[2] = "read" /\ b[2] = "read"

\* C23: once the context is cancelled the tasks return, and the deployer
\* that waits for them stops waiting.
CancelledInjectionReturns ==
    (fpc = "wait" /\ fout.cancelled) ~> (fpc = "returned")

\* the n-th step of one pass over the pods of task t
ExpectedStep(t, n) ==
    << <<"mkdir", "copy", "copymarker">>[((n - 1) % 3) + 1],
       t.pods[((n - 1) \div 3) + 1] >>

\* every step of the pass of task t was taken and succeeded
PassComplete(t) ==
    /\ Len(t.pods) >= 1
    /\ Len(t.log) = 3 * Len(t.pods)
    /\ \A n \in 1..Len(t.log) : t.log[n][3]

\* C25: a task takes the steps of a pod in the order target directory, data,
\* completion marker, each after the one before succeeded, one pod after
\* the other; it removes its source only after every pod it waited for has
\* the data and the marker, and after a failed step it is back at the head
\* of the loop, before the pod wait, and has not removed the source.
InjectionStepsInOrder ==
    \A i \in 1..Len(fout.tasks) :
      \E t \in { fout.tasks[i] } :
        /\ Len(t.log) <= 3 * Len(t.pods)
        /\ \A n \in 1..Len(t.log) :
              /\ <<t.log[n][1], t.log[n][2]>> = ExpectedStep(t, n)
              /\ n < Len(t.log) => t.log[n][3]
        /\ t.log # <<>> /\ ~t.log[Len(t.log)][3] =>
              ~t.removed /\ t.pc = "source"
        /\ t.pc \in {"final", "remove"} \/ t.removed => PassComplete(t)
        /\ ~t.removed /\ t.source # NoSource /\ t.pc # "done" =>
              \/ t.source \in fout.files
              \/ \E j \in 1..Len(fout.tasks) : j # i /\ fout.tasks[j].removed

\* a task that has removed its source after both pods have the data and the
\* marker
InjectionStepsInOrderWitness ==
    \E i \in 1..Len(fout.tasks) :
        /\ fout.tasks[i].removed
        /\ fout.tasks[i].pods = <<"p2", "p1">>
        /\ Len(fout.tasks[i].log) = 6

-----------------------------------------------------------------------------
(* Properties of the push loops *)

\* the two loops: what is pushed and where the deployer is when it pushes
PushLoops == { <<"images", "c_images">>, <<"repos", "c_repos">> }

\* C24: with a non-empty list the push is attempted at least once and at
\* most 3 times, an attempt is followed by another one only when it failed,
\* and the loop is left after a success or after the third failure; with an
\* empty list nothing is attempted.
PushAttemptedOneToThreeTimes ==
    [][\A l \in PushLoops :
         dpc = l[2] =>
           IF Has(l[1])
           THEN /\ retry + 1 <= PushAttempts
                /\ \E n \in DOMAIN steps' : steps'[n] = l[1]
                /\ dpc' = l[2] =>
                     /\ retry' = retry + 1
                     /\ pushed' = pushed
                /\ dpc' # l[2] =>
                     /\ retry' = 0
                     /\ \/ pushed'[l[1]] = "ok"
                        \/ pushed'[l[1]] = "failed" /\ retry + 1 = PushAttempts
           ELSE /\ dpc' # l[2]
                /\ UNCHANGED <<retry, pushed, steps>>]_vars

\* two attempts to push the images failed and the third one is due
PushAttemptedOneToThreeTimesWitness ==
    /\ dpc = "c_images"
    /\ Has("images")
    /\ retry + 1 = PushAttempts

-----------------------------------------------------------------------------
(* Properties of the signature validation *)

\* C27: with the insecure option the validation succeeds; otherwise it
\* succeeds with no signature and no key, returns ErrPkgSigButNoKey for a
\* signature without a key and ErrPkgKeyButNoSig for a key without a
\* signature, and with both succeeds exactly when Cosign verifies zarf.yaml
\* against the signature.
SignatureDecidedBySigAndKey ==
    fpc = "out" =>
      /\ fin.insecure => fout.err = "nil"
      /\ ~fin.insecure /\ "zarf.yaml.sig" \notin fin.directory /\ fin.publicKeyPath = "" => fout.err = "nil"
      /\ ~fin.insecure /\ "zarf.yaml.sig" \in fin.directory /\ fin.publicKeyPath = "" =>
            fout.err = ErrPkgSigButNoKey
      /\ ~fin.insecure /\ "zarf.yaml.sig" \notin fin.directory /\ fin.publicKeyPath # "" =>
            fout.err = ErrPkgKeyButNoSig
      /\ ~fin.insecure /\ "zarf.yaml.sig" \in fin.directory /\ fin.publicKeyPath # "" =>
            (fout.err = "nil" <=> fin.cosign = "nil")

\* a signed package and a key that does not verify it
SignatureDecidedBySigAndKeyWitness ==
    /\ fpc = "out"
    /\ ~fin.insecure /\ "zarf.yaml.sig" \in fin.directory /\ fin.publicKeyPath = "other.pub"
    /\ fin.cosign = "invalid signature"
    /\ fout.err # "nil"

-----------------------------------------------------------------------------
(* Properties of the image push *)

\* C28: every goroutine pushImageReference starts terminates: what it sends
\* on its channel is received, whichever of the push and the tunnel's error
\* comes first.
PushGoroutinesTerminate ==
    \A k \in 1..(2 * MaxImages) :
        (k <= Len(fout.goroutines)) ~>
            (k <= Len(fout.goroutines) /\ fout.goroutines[k].pc = "done")

-----------------------------------------------------------------------------
(* Properties of the secret replacement *)

\* C29: ReplaceSecret never loses a secret: when a secret was stored under
\* the name before a call, one is stored when the call returns, with or
\* without an error and also when two calls interleave; and when the call
\* returns nil the stored secret is the one passed in.
ReplaceSecretKeepsSecret ==
    \A p \in Callers :
        fout.calls[p].pc = "returned" =>
            /\ fout.calls[p].before # Absent => fout.calls[p].after # Absent
            /\ fout.calls[p].err = "nil" =>
                  fout.calls[p].after = fout.calls[p].secret

-----------------------------------------------------------------------------
(* Properties of the state of a cluster that has one *)

\* all of the state but the storage class
KeptState(st) ==
    <<st.secret, st.distro, st.architecture, st.zarfAppliance, st.nodePort>>

\* C30: preSeedRegistry on a cluster that holds a state secret saves the
\* state with its secret, distro, architecture, appliance flag and node port
\* as they were loaded; and when the architecture of the cluster is not the
\* one of the state it aborts, with no injection and no state saved, and
\* nothing follows the abort.
ExistingStateKept ==
    [][/\ dpc # "fatal"
       /\ dpc = "pre_load" =>
            IF cfg.clusterArch #
                 (IF cluster.state.secret = "" THEN PkgArch
                                               ELSE cluster.state.architecture)
            THEN dpc' = "fatal" /\ UNCHANGED <<cluster, events>>
            ELSE cluster.state.secret # "" /\ dpc' # "fatal" =>
                   KeptState(state') = KeptState(cluster.state)
       /\ dpc \in {"pre_inject", "pre_save"} /\ cluster.state.secret # "" =>
            /\ KeptState(cluster'.state) = KeptState(cluster.state)
            /\ KeptState(state') = KeptState(cluster.state)]_vars

\* the state of an earlier init saved again, with the storage class of its
\* distro
ExistingStateKeptWitness ==
    /\ dpc = "c_begin"
    /\ cfg.components[comp].name = "zarf-seed-registry"
    /\ \E n \in DOMAIN events : events[n] = "saveState"
    /\ cluster.state.secret = "s0"
    /\ cluster.state.distro = "kind"
    /\ cluster.state.nodePort = "30500"
    /\ cluster.state.storageClass = "standard"

====
